---- MODULE Spec2Model ----
(***************************************************************************)
(* kimiconfig: the layered configuration resolver of                       *)
(* src/src/kimiconfig/config.py (class Config and its module functions).   *)
(*                                                                         *)
(* Python values are modelled with reference semantics.  A str is a        *)
(* sequence of one-character strings.  A dict is an object of the heap     *)
(* (insertion-ordered keys plus a key -> value map) and a value that is a  *)
(* dict is a reference to such an object, so that `d[k] = v` with a dict v *)
(* makes d[k] and v the same object, as in Python.                         *)
(***************************************************************************)
EXTENDS Integers, Sequences, FiniteSets, TLC

VARIABLES
    heap,              \* address -> dict object [ks: Seq(key), m: key -> value]
    data,              \* value bound to the attribute self.data
    attrs,             \* the handle's projected attributes: name -> value
    use_dataclasses,   \* self._use_dataclasses
    files,             \* self.files: tracked paths, in order
    file_stamps,       \* self.file_stamps: path -> recorded st_mtime
    shutdown_flag,     \* self.shutdown_flag
    update_callbacks,  \* self._update_callbacks, in registration order
    disk,              \* the file system: path -> [content, mtime]
    fg,                \* foreground thread: program counter and locals
    poll,              \* polling thread: program counter and locals
    hist,              \* observation record of the operations performed
    instances          \* Singleton._instances and the instances made so far

vars == <<heap, data, attrs, use_dataclasses, files, file_stamps, shutdown_flag,
          update_callbacks, disk, fg, poll, hist, instances>>

(***************************************************************************)
(* Bounds of the model.                                                    *)
(***************************************************************************)
MaxOps == 2        \* foreground mutating calls explored after construction
MaxWrites == 1     \* writes to the tracked files by the environment
MaxCallbacks == 2  \* callbacks registered
MaxThreadOps == 1  \* foreground calls explored statement by statement
MaxMerges == 2     \* calls of _deep_update on the same two dicts
MaxStrLen == 3     \* length of the strings _convert_value is applied to
MaxInstances == 2  \* instances of Config made

(***************************************************************************)
(* Strings and values.                                                     *)
(***************************************************************************)
EmptyMap == [k \in {} |-> 0]

Leaf(ty, s) ==
    [kind |-> "leaf", ty |-> ty, s |-> s, ref |-> 0, ks |-> <<>>, kids |-> EmptyMap]
StrV(s) == Leaf("str", s)
BoolV(b) == Leaf("bool", IF b THEN <<"1">> ELSE <<"0">>)
\* A reference to the dict object at address a.
Ref(a) ==
    [kind |-> "dict", ty |-> "dict", s |-> <<>>, ref |-> a, ks |-> <<>>, kids |-> EmptyMap]
\* A dict written as a pure value (parsed file content, a freshly built path),
\* not yet an object of the heap: keys in insertion order, key -> value.
Lit(ks, f) ==
    [kind |-> "lit", ty |-> "dict", s |-> <<>>, ref |-> 0, ks |-> ks, kids |-> f]
\* An instance of a generated dataclass: field name -> value.
Rec(f) ==
    [kind |-> "rec", ty |-> "rec", s |-> <<>>, ref |-> 0, ks |-> <<>>, kids |-> f]
\* A list of str: the items in ks.
ListV(items) ==
    [kind |-> "list", ty |-> "list", s |-> <<>>, ref |-> 0, ks |-> items, kids |-> EmptyMap]
\* A raised exception, where a function returns a value or raises.
Raised == Leaf("raised", <<>>)
EmptyLit == Lit(<<>>, EmptyMap)

IsDict(v) == v.kind = "dict"

Range(sq) == {sq[i] : i \in 1..Len(sq)}

\* One-entry and two-entry dict literals.
D1(k, v) == Lit(<<k>>, [x \in {k} |-> v])
D2(k1, v1, k2, v2) == Lit(<<k1, k2>>, [x \in {k1, k2} |-> IF x = k1 THEN v1 ELSE v2])

\* t[k] = v on a dict literal: a new key goes to the end.
LitSet(t, k, v) ==
    Lit(IF k \in DOMAIN t.kids THEN t.ks ELSE Append(t.ks, k),
        [x \in (DOMAIN t.kids) \cup {k} |-> IF x = k THEN v ELSE t.kids[x]])

(***************************************************************************)
(* The heap.                                                               *)
(***************************************************************************)
EmptyObj == [ks |-> <<>>, m |-> EmptyMap]

\* obj[k] = v: a new key goes to the end, an existing key keeps its place.
ObjSet(o, k, v) ==
    [ks |-> IF k \in DOMAIN o.m THEN o.ks ELSE Append(o.ks, k),
     m |-> [x \in (DOMAIN o.m) \cup {k} |-> IF x = k THEN v ELSE o.m[x]]]

HeapSet(h, a, k, v) == [h EXCEPT ![a] = ObjSet(h[a], k, v)]

\* The address the next allocated object gets: the lowest one not in use.
NewAddr(h) == CHOOSE a \in 1..(Cardinality(DOMAIN h) + 1) :
                 /\ a \notin DOMAIN h
                 /\ \A b \in 1..(a - 1) : b \in DOMAIN h

Alloc(h) == [x \in (DOMAIN h) \cup {NewAddr(h)} |-> IF x \in DOMAIN h THEN h[x] ELSE EmptyObj]

\* The buffers are created once by __init__ and never rebound.
FILE_DATA == 1
ENV_DATA == 2
ARGS_DATA == 3
RUNTIME_DATA == 4
DATA0 == 5

\* Evaluating a dict literal allocates its objects; leaves are themselves.
\* Result: [h |-> heap, v |-> value].
RECURSIVE Build(_, _)
RECURSIVE BuildKeys(_, _, _, _)
Build(h, t) ==
    IF t.kind # "lit" THEN [h |-> h, v |-> t]
    ELSE LET a == NewAddr(h)
         IN  [h |-> BuildKeys(Alloc(h), a, t, 1), v |-> Ref(a)]
BuildKeys(h, a, t, i) ==
    IF i > Len(t.ks) THEN h
    ELSE LET k == t.ks[i]
             b == Build(h, t.kids[k])
         IN  BuildKeys(HeapSet(b.h, a, k, b.v), a, t, i + 1)

\* The value of a heap value as a pure tree (dict order dropped): what
\* Python's == compares.
RECURSIVE Snap(_, _)
Snap(h, v) ==
    IF v.kind = "dict"
    THEN Lit(<<>>, [k \in DOMAIN h[v.ref].m |-> Snap(h, h[v.ref].m[k])])
    ELSE IF v.kind = "lit"
    THEN Lit(<<>>, [k \in DOMAIN v.kids |-> Snap(h, v.kids[k])])
    ELSE v

\* Objects reachable from a set of addresses.
RECURSIVE Reach(_, _, _)
Reach(h, todo, seen) ==
    IF todo = {} THEN seen
    ELSE LET a == CHOOSE x \in todo : TRUE
             next == {h[a].m[k].ref : k \in {x \in DOMAIN h[a].m : IsDict(h[a].m[x])}}
         IN  Reach(h, (todo \cup next) \ (seen \cup {a}), seen \cup {a})

RefsOf(v) == IF IsDict(v) THEN {v.ref} ELSE {}

\* Garbage collection: objects no name of the program reaches are freed.
Collect(h, d, at) ==
    LET roots == {FILE_DATA, ENV_DATA, ARGS_DATA, RUNTIME_DATA} \cup RefsOf(d)
                 \cup UNION {RefsOf(at[k]) : k \in DOMAIN at}
        live == Reach(h, roots, {})
    IN  [a \in live |-> h[a]]

(***************************************************************************)
(* Config._deep_update                                                     *)
(***************************************************************************)
\* d.update(u) in place of the recursion: every item of u is assigned.
RECURSIVE ShallowUpdateItems(_, _, _, _)
ShallowUpdateItems(h, d, u, i) ==
    IF i > Len(h[u].ks) THEN h
    ELSE ShallowUpdateItems(HeapSet(h, d, h[u].ks[i], h[u].m[h[u].ks[i]]), d, u, i + 1)

RECURSIVE DeepUpdate(_, _, _)
RECURSIVE DeepUpdateItems(_, _, _, _)

\* The loop without line 287: a non-mapping of d stays where u holds a
\* mapping.
RECURSIVE KeepTargetItems(_, _, _, _)
KeepTargetItems(h, d, u, i) ==
    IF i > Len(h[u].ks) THEN h
    ELSE LET k == h[u].ks[i]
             v == h[u].m[k]
         IN  IF ~IsDict(v) THEN KeepTargetItems(HeapSet(h, d, k, v), d, u, i + 1)
             ELSE IF k \notin DOMAIN h[d].m
             THEN KeepTargetItems(DeepUpdate(HeapSet(Alloc(h), d, k, Ref(NewAddr(h))),
                                             NewAddr(h), v.ref), d, u, i + 1)
             ELSE IF IsDict(h[d].m[k])
             THEN KeepTargetItems(DeepUpdate(h, h[d].m[k].ref, v.ref), d, u, i + 1)
             ELSE KeepTargetItems(h, d, u, i + 1)

\* The loop with lists merged element-wise: a list of u is appended to the
\* list d holds.
RECURSIVE ExtendListsItems(_, _, _, _)
ExtendListsItems(h, d, u, i) ==
    IF i > Len(h[u].ks) THEN h
    ELSE LET k == h[u].ks[i]
             v == h[u].m[k]
         IN  IF IsDict(v)
             THEN IF k \in DOMAIN h[d].m /\ IsDict(h[d].m[k])
                  THEN ExtendListsItems(DeepUpdate(h, h[d].m[k].ref, v.ref), d, u, i + 1)
                  ELSE ExtendListsItems(HeapSet(h, d, k, v), d, u, i + 1)
             ELSE IF v.kind = "list" /\ k \in DOMAIN h[d].m /\ h[d].m[k].kind = "list"
             THEN ExtendListsItems(HeapSet(h, d, k, ListV(h[d].m[k].ks \o v.ks)), d, u, i + 1)
             ELSE ExtendListsItems(HeapSet(h, d, k, v), d, u, i + 1)

\* One pass of `for k, v in u.items()` from position i on; d and u are
\* addresses of dict objects.
DeepUpdateItems(h, d, u, i) ==
    IF i > Len(h[u].ks) THEN h
    ELSE LET k == h[u].ks[i]
             v == h[u].m[k]
         IN  IF IsDict(v)
             THEN LET h1 == IF k \in DOMAIN h[d].m
                            THEN h
                            ELSE HeapSet(Alloc(h), d, k, Ref(NewAddr(h)))
                      dk == h1[d].m[k]
                      h2 == IF IsDict(dk)
                            THEN DeepUpdate(h1, dk.ref, v.ref)
                            ELSE HeapSet(h1, d, k, v)
                  IN  DeepUpdateItems(h2, d, u, i + 1)
             ELSE DeepUpdateItems(HeapSet(h, d, k, v), d, u, i + 1)

DeepUpdate(h, d, u) == DeepUpdateItems(h, d, u, 1)

\* _deep_update(d, <literal>): the literal is built, then merged.
DeepUpdateLit(h, d, t) ==
    LET b == Build(h, t) IN DeepUpdate(b.h, d, b.v.ref)

(***************************************************************************)
(* str methods used by the module.                                         *)
(***************************************************************************)
Has(s, c) == \E i \in 1..Len(s) : s[i] = c

StartsWith(s, pre) == Len(s) >= Len(pre) /\ SubSeq(s, 1, Len(pre)) = pre

Drop(s, n) == SubSeq(s, n + 1, Len(s))

\* Position of the first c in s, 0 when there is none.
Find(s, c) == IF Has(s, c) THEN CHOOSE i \in 1..Len(s) :
                                    s[i] = c /\ \A j \in 1..(i - 1) : s[j] # c
              ELSE 0

\* s.split(c): the pieces between the occurrences of c.
RECURSIVE Split(_, _)
Split(s, c) ==
    IF ~Has(s, c) THEN <<s>>
    ELSE <<SubSeq(s, 1, Find(s, c) - 1)>> \o Split(Drop(s, Find(s, c)), c)

UpperCase == <<"A", "B", "C", "D", "E", "F", "G", "H", "I", "J", "K", "L", "M",
               "N", "O", "P", "Q", "R", "S", "T", "U", "V", "W", "X", "Y", "Z">>
LowerCase == <<"a", "b", "c", "d", "e", "f", "g", "h", "i", "j", "k", "l", "m",
               "n", "o", "p", "q", "r", "s", "t", "u", "v", "w", "x", "y", "z">>
Digits == {"0", "1", "2", "3", "4", "5", "6", "7", "8", "9"}

LowerChar(c) == IF c \in Range(UpperCase)
                THEN LowerCase[CHOOSE i \in 1..26 : UpperCase[i] = c]
                ELSE c
\* s.lower()
Lower(s) == [i \in 1..Len(s) |-> LowerChar(s[i])]

\* s.replace('__', '.'): left to right, non-overlapping.
RECURSIVE ReplaceDunder(_)
ReplaceDunder(s) ==
    IF Len(s) < 2 THEN s
    ELSE IF s[1] = "_" /\ s[2] = "_" THEN <<".">> \o ReplaceDunder(Drop(s, 2))
    ELSE <<s[1]>> \o ReplaceDunder(Drop(s, 1))

(***************************************************************************)
(* _convert_value                                                          *)
(***************************************************************************)
AllDigits(s) == \A i \in 1..Len(s) : s[i] \in Digits

Unsigned(s) == IF Len(s) > 0 /\ s[1] \in {"+", "-"} THEN Drop(s, 1) ELSE s
IsNegative(s) == Len(s) > 0 /\ s[1] = "-"

\* int(s) succeeds: an optional sign and one or more decimal digits.
IntParses(s) == Len(Unsigned(s)) > 0 /\ AllDigits(Unsigned(s))

\* float(s) succeeds, for s holding a '.': an optional sign, digits around
\* one point, at least one digit.
FloatParses(s) ==
    LET u == Unsigned(s)
        p == Split(u, ".")
    IN  /\ Len(p) = 2
        /\ AllDigits(p[1]) /\ AllDigits(p[2])
        /\ Len(p[1]) + Len(p[2]) > 0

RECURSIVE StripLeadingZeros(_)
StripLeadingZeros(s) ==
    IF Len(s) > 1 /\ s[1] = "0" THEN StripLeadingZeros(Drop(s, 1)) ELSE s
RECURSIVE StripTrailingZeros(_)
StripTrailingZeros(s) ==
    IF Len(s) > 1 /\ s[Len(s)] = "0" THEN StripTrailingZeros(SubSeq(s, 1, Len(s) - 1)) ELSE s

\* The number a literal denotes, written canonically.
IntOf(s) ==
    LET d == StripLeadingZeros(Unsigned(s))
    IN  Leaf("int", IF IsNegative(s) /\ d # <<"0">> THEN <<"-">> \o d ELSE d)
FloatOf(s) ==
    LET p == Split(Unsigned(s), ".")
        ip == StripLeadingZeros(IF p[1] = <<>> THEN <<"0">> ELSE p[1])
        fp == StripTrailingZeros(IF p[2] = <<>> THEN <<"0">> ELSE p[2])
    IN  Leaf("float", (IF IsNegative(s) THEN <<"-">> ELSE <<>>) \o ip \o <<".">> \o fp)

\* The classification with the numbers tried before the boolean tokens.
ConvertNumbersFirst(v) ==
    IF v.ty # "str" THEN v
    ELSE IF Has(v.s, ".") /\ FloatParses(v.s) THEN FloatOf(v.s)
    ELSE IF ~Has(v.s, ".") /\ IntParses(v.s) THEN IntOf(v.s)
    ELSE IF Lower(v.s) \in {<<"t", "r", "u", "e">>, <<"y", "e", "s">>, <<"y">>, <<"1">>}
    THEN BoolV(TRUE)
    ELSE IF Lower(v.s) \in {<<"f", "a", "l", "s", "e">>, <<"n", "o">>, <<"n">>, <<"0">>}
    THEN BoolV(FALSE)
    ELSE v

TrueTokens == {<<"t", "r", "u", "e">>, <<"y", "e", "s">>, <<"y">>, <<"1">>}
FalseTokens == {<<"f", "a", "l", "s", "e">>, <<"n", "o">>, <<"n">>, <<"0">>}

ConvertValue(v) ==
    IF v.ty # "str" THEN v
    ELSE IF Lower(v.s) \in TrueTokens THEN BoolV(TRUE)
    ELSE IF Lower(v.s) \in FalseTokens THEN BoolV(FALSE)
    ELSE IF Has(v.s, ".")
         THEN (IF FloatParses(v.s) THEN FloatOf(v.s) ELSE v)
         ELSE (IF IntParses(v.s) THEN IntOf(v.s) ELSE v)

(***************************************************************************)
(* _parse_args                                                             *)
(***************************************************************************)
\* The nested assignment of lines 73-79 on the literal `cur`: a missing part
\* is created as {}, and an existing part that is not a dict raises
\* TypeError at the item assignment (or at the `in` test) that follows.
RECURSIVE ParsePathSet(_, _, _)
ParsePathSet(cur, parts, v) ==
    IF cur.kind # "lit" THEN Raised
    ELSE IF Len(parts) = 1 THEN LitSet(cur, parts[1], v)
    ELSE LET sub == IF parts[1] \in DOMAIN cur.kids THEN cur.kids[parts[1]] ELSE EmptyLit
             r == ParsePathSet(sub, Tail(parts), v)
         IN  IF r = Raised THEN Raised ELSE LitSet(cur, parts[1], r)

ParseOneArg(result, arg) ==
    IF StartsWith(arg, <<"-", "-">>)
    THEN IF Has(arg, "=")
         THEN LET body == Drop(arg, 2)
                  key == SubSeq(body, 1, Find(body, "=") - 1)
                  value == StrV(Drop(body, Find(body, "=")))
              IN  IF Has(key, ".")
                  THEN ParsePathSet(result, Split(key, "."), ConvertValue(value))
                  ELSE LitSet(result, key, ConvertValue(value))
         ELSE LitSet(result, Drop(arg, 2), BoolV(TRUE))
    ELSE IF StartsWith(arg, <<"-">>)
    THEN LitSet(result, Drop(arg, 1), BoolV(TRUE))
    ELSE result

RECURSIVE ParseArgsFrom(_, _, _)
ParseArgsFrom(result, args, i) ==
    IF result = Raised \/ i > Len(args) THEN result
    ELSE ParseArgsFrom(ParseOneArg(result, args[i]), args, i + 1)

\* The dict _parse_args returns, or Raised.
ParseArgs(args) == ParseArgsFrom(EmptyLit, args, 1)

\* The single-path dict that lines 245-251 (and 397-403) build from the
\* parts of a dotted key.
RECURSIVE PathLit(_, _)
PathLit(parts, v) ==
    IF Len(parts) = 1 THEN D1(parts[1], v)
    ELSE D1(parts[1], PathLit(Tail(parts), v))

(***************************************************************************)
(* Config._load_from_args                                                  *)
(***************************************************************************)
RECURSIVE LoadFromArgsItems(_, _, _)
LoadFromArgsItems(h, args_dict, i) ==
    IF i > Len(args_dict.ks) THEN h
    ELSE LET key == args_dict.ks[i]
             value == args_dict.kids[key]
             h1 == IF Has(key, ".")
                   THEN DeepUpdateLit(h, ARGS_DATA, PathLit(Split(key, "."), ConvertValue(value)))
                   ELSE DeepUpdateLit(h, ARGS_DATA, D1(key, ConvertValue(value)))
         IN  LoadFromArgsItems(h1, args_dict, i + 1)

LoadFromArgs(h, args_dict) == LoadFromArgsItems(h, args_dict, 1)

(***************************************************************************)
(* Config._load_from_env                                                   *)
(***************************************************************************)
\* The setdefault walk of lines 264-267 on the literal env_data; an existing
\* part that is not a dict raises TypeError at the item assignment.
RECURSIVE EnvPathSet(_, _, _)
EnvPathSet(cur, parts, v) ==
    IF cur.kind # "lit" THEN Raised
    ELSE IF Len(parts) = 1 THEN LitSet(cur, parts[1], v)
    ELSE LET sub == IF parts[1] \in DOMAIN cur.kids THEN cur.kids[parts[1]] ELSE EmptyLit
             r == EnvPathSet(sub, Tail(parts), v)
         IN  IF r = Raised THEN Raised ELSE LitSet(cur, parts[1], r)

\* environ: sequence of <<name, value>> in os.environ's order.
RECURSIVE EnvDataFrom(_, _, _, _)
EnvDataFrom(env_data, environ, prefix, i) ==
    IF env_data = Raised \/ i > Len(environ) THEN env_data
    ELSE LET key == environ[i][1]
             value == StrV(environ[i][2])
             config_key == ReplaceDunder(Lower(Drop(key, Len(prefix))))
             e1 == IF ~StartsWith(key, prefix) THEN env_data
                   ELSE IF Has(config_key, ".")
                   THEN EnvPathSet(env_data, Split(config_key, "."), ConvertValue(value))
                   ELSE LitSet(env_data, config_key, ConvertValue(value))
         IN  EnvDataFrom(e1, environ, prefix, i + 1)

\* _load_from_env: [ok |-> it returned, h |-> the heap after it].
LoadFromEnv(h, environ, prefix) ==
    LET env_data == EnvDataFrom(EmptyLit, environ, prefix, 1)
    IN  IF env_data = Raised THEN [ok |-> FALSE, h |-> h]
        ELSE [ok |-> TRUE, h |-> DeepUpdateLit(h, ENV_DATA, env_data)]

(***************************************************************************)
(* The order of str and list.sort().                                       *)
(***************************************************************************)
\* The printable ASCII characters in the order of their code points: 32 to
\* 95, and 97 to 126.
Ascii == <<" ", "!", "\"", "#", "$", "%", "&", "'", "(", ")", "*", "+", ",", "-", ".", "/",
           "0", "1", "2", "3", "4", "5", "6", "7", "8", "9", ":", ";", "<", "=", ">", "?",
           "@", "A", "B", "C", "D", "E", "F", "G", "H", "I", "J", "K", "L", "M", "N", "O",
           "P", "Q", "R", "S", "T", "U", "V", "W", "X", "Y", "Z", "[", "\\", "]", "^", "_">>
AsciiFrom_a ==
         <<"a", "b", "c", "d", "e", "f", "g", "h", "i", "j", "k", "l", "m", "n", "o",
           "p", "q", "r", "s", "t", "u", "v", "w", "x", "y", "z", "{", "|", "}", "~">>

\* ord(c)
Ord(c) == IF c \in Range(Ascii)
          THEN 31 + CHOOSE i \in 1..Len(Ascii) : Ascii[i] = c
          ELSE 96 + CHOOSE i \in 1..Len(AsciiFrom_a) : AsciiFrom_a[i] = c

\* s < t for two str: the first position they differ at decides, a proper
\* prefix is the smaller.
StrLess(s, t) ==
    \E i \in 1..Len(t) :
        /\ \A j \in 1..(i - 1) : j <= Len(s) /\ s[j] = t[j]
        /\ (i > Len(s) \/ Ord(s[i]) < Ord(t[i]))

\* The list left as it is, where the code sorts it.
KeepOrder(ks) == ks

\* ks.sort() for a list of str.
RECURSIVE SortKeys(_)
SortKeys(ks) ==
    IF ks = <<>> THEN <<>>
    ELSE LET least == CHOOSE i \in 1..Len(ks) :
                          /\ \A j \in 1..Len(ks) : ~StrLess(ks[j], ks[i])
                          /\ \A j \in 1..(i - 1) : ks[j] # ks[i]
         IN  <<ks[least]>> \o
             SortKeys([j \in 1..(Len(ks) - 1) |-> IF j < least THEN ks[j] ELSE ks[j + 1]])

(***************************************************************************)
(* Names.                                                                  *)
(***************************************************************************)
N_data == <<"d", "a", "t", "a">>
N_shutdown_flag == <<"s", "h", "u", "t", "d", "o", "w", "n", "_", "f", "l", "a", "g">>
N_update == <<"u", "p", "d", "a", "t", "e">>
N_save == <<"s", "a", "v", "e">>
N_files == <<"f", "i", "l", "e", "s">>

\* The names bound to a callable on a Config instance: the methods of the
\* class (object's own dunder methods are left out).
MethodNames ==
    {<<"u", "p", "d", "a", "t", "e">>,
    <<"l", "o", "a", "d", "_", "f", "i", "l", "e", "s">>,
    <<"l", "o", "a", "d", "_", "a", "r", "g", "s">>,
    <<"r", "e", "g", "i", "s", "t", "e", "r", "_", "u", "p", "d", "a", "t", "e", "_", "c", "a", "l", "l", "b", "a", "c", "k">>,
    <<"v", "a", "l", "i", "d", "a", "t", "e", "_", "c", "o", "n", "f", "i", "g">>,
    <<"s", "h", "u", "t", "d", "o", "w", "n">>,
    <<"s", "a", "v", "e">>,
    <<"f", "o", "r", "m", "a", "t", "_", "a", "t", "t", "r", "i", "b", "u", "t", "e", "s">>,
    <<"p", "r", "i", "n", "t", "_", "c", "o", "n", "f", "i", "g">>,
    <<"g", "e", "t", "_", "t", "a", "b", "l", "e", "_", "v", "i", "e", "w">>,
    <<"_", "r", "e", "s", "e", "t">>,
    <<"_", "i", "n", "i", "t", "_", "d", "e", "f", "a", "u", "l", "t", "_", "l", "o", "g", "g", "i", "n", "g">>,
    <<"_", "l", "o", "a", "d", "_", "f", "r", "o", "m", "_", "a", "r", "g", "s">>,
    <<"_", "l", "o", "a", "d", "_", "f", "r", "o", "m", "_", "e", "n", "v">>,
    <<"_", "d", "e", "e", "p", "_", "u", "p", "d", "a", "t", "e">>,
    <<"_", "l", "o", "a", "d", "_", "f", "r", "o", "m", "_", "f", "i", "l", "e", "s">>,
    <<"_", "d", "i", "c", "t", "_", "t", "o", "_", "d", "a", "t", "a", "c", "l", "a", "s", "s">>,
    <<"_", "v", "a", "l", "i", "d", "a", "t", "e", "_", "a", "t", "t", "r", "i", "b", "u", "t", "e", "_", "o", "v", "e", "r", "r", "i", "d", "e">>,
    <<"_", "u", "p", "d", "a", "t", "e", "_", "d", "a", "t", "a", "_", "f", "r", "o", "m", "_", "a", "l", "l", "_", "x", "_", "d", "a", "t", "a">>,
    <<"_", "u", "p", "d", "a", "t", "e", "_", "a", "t", "t", "r", "i", "b", "u", "t", "e", "s", "_", "f", "r", "o", "m", "_", "d", "a", "t", "a">>,
    <<"_", "c", "o", "n", "f", "i", "g", "_", "f", "i", "l", "e", "_", "p", "o", "l", "l", "i", "n", "g", "_", "t", "h", "r", "e", "a", "d">>,
    <<"_", "i", "s", "_", "k", "e", "y", "_", "p", "r", "e", "s", "e", "n", "t", "_", "r", "e", "c", "u", "r", "s", "i", "v", "e">>,
    <<"_", "_", "i", "n", "i", "t", "_", "_">>}

\* keyword.kwlist
Keywords ==
    {<<"F", "a", "l", "s", "e">>,
    <<"N", "o", "n", "e">>,
    <<"T", "r", "u", "e">>,
    <<"a", "n", "d">>,
    <<"a", "s">>,
    <<"a", "s", "s", "e", "r", "t">>,
    <<"a", "s", "y", "n", "c">>,
    <<"a", "w", "a", "i", "t">>,
    <<"b", "r", "e", "a", "k">>,
    <<"c", "l", "a", "s", "s">>,
    <<"c", "o", "n", "t", "i", "n", "u", "e">>,
    <<"d", "e", "f">>,
    <<"d", "e", "l">>,
    <<"e", "l", "i", "f">>,
    <<"e", "l", "s", "e">>,
    <<"e", "x", "c", "e", "p", "t">>,
    <<"f", "i", "n", "a", "l", "l", "y">>,
    <<"f", "o", "r">>,
    <<"f", "r", "o", "m">>,
    <<"g", "l", "o", "b", "a", "l">>,
    <<"i", "f">>,
    <<"i", "m", "p", "o", "r", "t">>,
    <<"i", "n">>,
    <<"i", "s">>,
    <<"l", "a", "m", "b", "d", "a">>,
    <<"n", "o", "n", "l", "o", "c", "a", "l">>,
    <<"n", "o", "t">>,
    <<"o", "r">>,
    <<"p", "a", "s", "s">>,
    <<"r", "a", "i", "s", "e">>,
    <<"r", "e", "t", "u", "r", "n">>,
    <<"t", "r", "y">>,
    <<"w", "h", "i", "l", "e">>,
    <<"w", "i", "t", "h">>,
    <<"y", "i", "e", "l", "d">>}

Letters == Range(UpperCase) \cup Range(LowerCase)

\* str.isidentifier(), for ASCII.
IsIdentifier(s) ==
    /\ Len(s) > 0
    /\ s[1] \in Letters \cup {"_"}
    /\ \A i \in 1..Len(s) : s[i] \in Letters \cup Digits \cup {"_"}

\* bool(v)
Truthy(h, v) ==
    CASE v.kind = "dict" -> h[v.ref].ks # <<>>
      [] v.kind = "lit" -> v.ks # <<>>
      [] v.kind = "rec" -> TRUE
      [] v.kind = "list" -> v.ks # <<>>
      [] v.ty = "bool" -> v.s = <<"1">>
      [] v.ty = "int" -> v.s # <<"0">>
      [] v.ty = "float" -> v.s \notin {<<"0", ".", "0">>, <<"-", "0", ".", "0">>}
      [] v.ty = "str" -> v.s # <<>>
      [] OTHER -> FALSE

(***************************************************************************)
(* Config._dict_to_dataclass                                               *)
(***************************************************************************)
\* str(key).translate({' ': '_', '.': '_', '-': '_'})
Sanitize(s) == [i \in 1..Len(s) |-> IF s[i] \in {" ", ".", "-"} THEN "_" ELSE s[i]]

\* The dataclass instance built from the dict at address a, or Raised:
\* make_dataclass raises TypeError for a field name that is no identifier,
\* is a keyword, or occurs twice.
RECURSIVE DictToDataclass(_, _)
RECURSIVE DataclassFields(_, _, _, _)
DataclassFields(h, a, i, values) ==
    IF i > Len(h[a].ks) THEN [ok |-> TRUE, values |-> values]
    ELSE LET key == h[a].ks[i]
             value == h[a].m[key]
             key_str == Sanitize(key)
             fv == IF IsDict(value) THEN DictToDataclass(h, value.ref) ELSE value
         IN  IF fv = Raised THEN [ok |-> FALSE, values |-> values]
             ELSE DataclassFields(h, a, i + 1,
                    [x \in (DOMAIN values) \cup {key_str} |->
                        IF x = key_str THEN fv ELSE values[x]])
DictToDataclass(h, a) ==
    LET names == [i \in 1..Len(h[a].ks) |-> Sanitize(h[a].ks[i])]
        r == DataclassFields(h, a, 1, EmptyMap)
    IN  IF ~r.ok THEN Raised
        ELSE IF \E i \in 1..Len(names) :
                   \/ ~IsIdentifier(names[i])
                   \/ names[i] \in Keywords
                   \/ \E j \in 1..Len(names) : j # i /\ names[j] = names[i]
        THEN Raised
        ELSE Rec(r.values)

(***************************************************************************)
(* The handle.  st = [heap, data, attrs, files, shutdown_flag, exc, msg]:   *)
(* the part of the instance an operation reads and writes, the exception   *)
(* it has raised ("" while it runs normally) and, for the ValueError of a  *)
(* conflict, the keys its message lists.                                   *)
(***************************************************************************)
NoExc == ""

\* setattr(self, k, v).  data, files and shutdown_flag are attributes of the
\* same instance as the projected keys.
SetAttr(st, k, v) ==
    IF k = N_data THEN [st EXCEPT !.data = v]
    ELSE IF k = N_files THEN [st EXCEPT !.files = v]
    ELSE IF k = N_shutdown_flag THEN [st EXCEPT !.shutdown_flag = v]
    ELSE [st EXCEPT !.attrs = [x \in (DOMAIN st.attrs) \cup {k} |->
                                  IF x = k THEN v ELSE st.attrs[x]]]

\* The names setattr binds: the projected attributes, files, shutdown_flag.
Bound(at, fv, sf) ==
    [x \in (DOMAIN at) \cup {N_files, N_shutdown_flag} |->
        IF x = N_files THEN fv ELSE IF x = N_shutdown_flag THEN sf ELSE at[x]]

(***************************************************************************)
(* Config._validate_attribute_override                                     *)
(***************************************************************************)
\* dir(self) holds the class's names and the instance's; the names bound to
\* a callable are the methods.  The keys that conflict, in data's order.
ConflictingKeys(h, a) ==
    SelectSeq(h[a].ks, LAMBDA key : key \in MethodNames)

\* Lines 362-367: the handle after the validation of the dict at address a.
ValidateAttributeOverride(st, h, a) ==
    IF ConflictingKeys(h, a) # <<>>
    THEN [st EXCEPT !.heap = h, !.exc = "ValueError",
                    !.msg = SortKeys(ConflictingKeys(h, a))]
    ELSE [st EXCEPT !.heap = h]

(***************************************************************************)
(* Config._update_data_from_all_x_data                                     *)
(***************************************************************************)
\* The four merges after the clear, as far as step n (0..4).
MergeStep(h, d, n) ==
    CASE n = 1 -> DeepUpdate(h, d, FILE_DATA)
      [] n = 2 -> DeepUpdate(h, d, ENV_DATA)
      [] n = 3 -> DeepUpdate(h, d, ARGS_DATA)
      [] n = 4 -> DeepUpdate(h, d, RUNTIME_DATA)

DataClear(h, d) == [h EXCEPT ![d] = EmptyObj]

UpdateDataFromAllXData(st) ==
    IF st.exc # NoExc THEN st
    ELSE IF ~IsDict(st.data) THEN [st EXCEPT !.exc = "AttributeError"]
    ELSE LET d == st.data.ref
             h0 == DataClear(st.heap, d)
             h4 == MergeStep(MergeStep(MergeStep(MergeStep(h0, d, 1), d, 2), d, 3), d, 4)
         IN  ValidateAttributeOverride(st, h4, d)

(***************************************************************************)
(* Config._update_attributes_from_data                                     *)
(***************************************************************************)
\* The loop over self.data.items(): the items view is taken once, of the
\* dict at address d, and stays on it when setattr rebinds self.data.
RECURSIVE ProjectItems(_, _, _, _)
ProjectItems(st, d, i, typed) ==
    IF st.exc # NoExc \/ i > Len(st.heap[d].ks) THEN st
    ELSE LET k == st.heap[d].ks[i]
             v == st.heap[d].m[k]
             pv == IF typed /\ IsDict(v) THEN DictToDataclass(st.heap, v.ref) ELSE v
         IN  IF pv = Raised THEN [st EXCEPT !.exc = "TypeError"]
             ELSE ProjectItems(SetAttr(st, k, pv), d, i + 1, typed)

UpdateAttributesFromData(st, typed) ==
    IF st.exc # NoExc THEN st
    ELSE IF ~IsDict(st.data) THEN [st EXCEPT !.exc = "AttributeError"]
    ELSE ProjectItems(st, st.data.ref, 1, typed)

\* self._update_data_from_all_x_data()._update_attributes_from_data()
Resolve(st, typed) == UpdateAttributesFromData(UpdateDataFromAllXData(st), typed)

(***************************************************************************)
(* Config._load_from_files                                                 *)
(***************************************************************************)
EndsWith(s, suf) ==
    Len(s) >= Len(suf) /\ SubSeq(s, Len(s) - Len(suf) + 1, Len(s)) = suf

IsYamlPath(f) == EndsWith(Lower(f), <<".", "y", "a", "m", "l">>) \/ EndsWith(Lower(f), <<".", "y", "m", "l">>)
IsJsonPath(f) == EndsWith(Lower(f), <<".", "j", "s", "o", "n">>)

\* `for file in self.files`: a list gives its items, a str its characters,
\* a dict its keys; any other value is not iterable (TypeError).
Iterable(v) == v.kind \in {"list", "dict"} \/ (v.kind = "leaf" /\ v.ty = "str")

IterItems(h, v) ==
    CASE v.kind = "list" -> v.ks
      [] v.kind = "dict" -> h[v.ref].ks
      [] OTHER -> [i \in 1..Len(v.s) |-> <<v.s[i]>>]

\* A path no file is at.
Missing == [exists |-> FALSE, mtime |-> 0, content |-> Raised]

\* The file at a path of the disk dk.
FileAt(dk, file) == IF file \in DOMAIN dk THEN dk[file] ELSE Missing

\* The loop of line 294 with the try around it: the first file that fails
\* ends the loading.
RECURSIVE LoadFilesAbort(_, _, _, _, _)
LoadFilesAbort(h, fs, dk, i, new_data) ==
    IF i > Len(fs) THEN h
    ELSE IF ~FileAt(dk, fs[i]).exists \/ FileAt(dk, fs[i]).content.kind # "lit" THEN h
    ELSE LoadFilesAbort(DeepUpdate(Build(h, FileAt(dk, fs[i]).content).h, FILE_DATA,
                                   Build(h, FileAt(dk, fs[i]).content).v.ref),
                        fs, dk, i + 1, new_data)

\* A file of the disk: [exists, mtime, content]; content is what the parser
\* returns (a dict literal or a leaf), or Raised when it does not parse.
\* The local new_data survives from one iteration to the next; Raised
\* stands for "not bound yet".
RECURSIVE LoadFiles(_, _, _, _, _)
LoadFiles(h, fs, dk, i, new_data) ==
    IF i > Len(fs) THEN h
    ELSE LET file == fs[i]
             opened == FileAt(dk, file).exists
             parses == (IsYamlPath(file) \/ IsJsonPath(file))
             failed == ~opened \/ (parses /\ FileAt(dk, file).content = Raised)
             loaded == IF Truthy(h, FileAt(dk, file).content)
                       THEN FileAt(dk, file).content ELSE EmptyLit
             b == IF ~failed /\ parses THEN Build(h, loaded) ELSE [h |-> h, v |-> new_data]
         IN  IF failed THEN LoadFiles(h, fs, dk, i + 1, new_data)
             ELSE IF ~IsDict(b.v) THEN LoadFiles(b.h, fs, dk, i + 1, b.v)
             ELSE LoadFiles(DeepUpdate(b.h, FILE_DATA, b.v.ref), fs, dk, i + 1, b.v)

LoadFromFiles(h, fs, dk) == LoadFiles(DataClear(h, FILE_DATA), fs, dk, 1, Raised)

\* _load_from_files() on the handle st: the for statement of line 294
\* raises TypeError, after the clear, when self.files is not iterable.
LoadFromFilesOf(st, dk) ==
    IF st.exc # NoExc THEN st
    ELSE IF ~Iterable(st.files)
    THEN [st EXCEPT !.heap = DataClear(st.heap, FILE_DATA), !.exc = "TypeError"]
    ELSE [st EXCEPT !.heap = LoadFromFiles(st.heap, IterItems(st.heap, st.files), dk)]

(***************************************************************************)
(* The polling thread's check of lines 413-422.                            *)
(***************************************************************************)
\* [stamps, reload_needed] after the loop over self.files from position i.
RECURSIVE CheckStamps(_, _, _, _, _)
CheckStamps(fs, dk, stamps, need, i) ==
    IF i > Len(fs) THEN [stamps |-> stamps, reload_needed |-> need]
    ELSE LET file == fs[i]
             changed == FileAt(dk, file).exists /\
                        (file \notin DOMAIN stamps \/ stamps[file] # FileAt(dk, file).mtime)
         IN  IF changed
             THEN CheckStamps(fs, dk,
                    [x \in (DOMAIN stamps) \cup {file} |->
                        IF x = file THEN FileAt(dk, file).mtime ELSE stamps[x]],
                    TRUE, i + 1)
             ELSE CheckStamps(fs, dk, stamps, need, i + 1)

(***************************************************************************)
(* Config._is_key_present_recursive and Config.validate_config             *)
(***************************************************************************)
Wildcard == <<"%">>

\* The wildcard satisfied by one child, where the code asks for all.
RECURSIVE AnyChildPresent(_, _, _)
AnyChildPresent(h, current_data, path_parts) ==
    IF path_parts = <<>> THEN TRUE
    ELSE IF ~IsDict(current_data) THEN FALSE
    ELSE IF path_parts[1] = Wildcard
    THEN \/ h[current_data.ref].ks = <<>>
         \/ Tail(path_parts) = <<>>
         \/ \E k \in DOMAIN h[current_data.ref].m :
                AnyChildPresent(h, h[current_data.ref].m[k], Tail(path_parts))
    ELSE /\ path_parts[1] \in DOMAIN h[current_data.ref].m
         /\ AnyChildPresent(h, h[current_data.ref].m[path_parts[1]], Tail(path_parts))

RECURSIVE IsKeyPresentRecursive(_, _, _)
IsKeyPresentRecursive(h, current_data, path_parts) ==
    IF path_parts = <<>> THEN TRUE
    ELSE LET part == path_parts[1]
             remaining_parts == Tail(path_parts)
         IN  IF part = Wildcard
             THEN IF ~IsDict(current_data) THEN FALSE
                  ELSE IF ~Truthy(h, current_data) THEN TRUE
                  ELSE IF remaining_parts = <<>> THEN TRUE
                  ELSE \A k \in DOMAIN h[current_data.ref].m :
                          IsKeyPresentRecursive(h, h[current_data.ref].m[k], remaining_parts)
             ELSE IF ~IsDict(current_data) \/ part \notin DOMAIN h[current_data.ref].m
                  THEN FALSE
                  ELSE IsKeyPresentRecursive(h, h[current_data.ref].m[part], remaining_parts)

\* Lines 477-480: the keys of the list that are not present, in its order.
MissingKeys(st, keys_to_validate) ==
    SelectSeq(keys_to_validate,
              LAMBDA key_str : ~IsKeyPresentRecursive(st.heap, st.data, Split(key_str, ".")))

\* The loop of line 478 left at the first key that is not present.
ValidateFailFast(st, keys_to_validate) ==
    IF MissingKeys(st, keys_to_validate) = <<>> THEN st
    ELSE [st EXCEPT !.exc = "ValueError", !.msg = <<MissingKeys(st, keys_to_validate)[1]>>]

\* validate_config(keys_to_validate): the handle after the call.
ValidateConfig(st, keys_to_validate) ==
    IF MissingKeys(st, keys_to_validate) = <<>> THEN st
    ELSE [st EXCEPT !.exc = "ValueError", !.msg = SortKeys(MissingKeys(st, keys_to_validate))]

(***************************************************************************)
(* Inputs explored.                                                        *)
(***************************************************************************)
F1 == <<"a", ".", "y", "a", "m", "l">>
F2 == <<"b", ".", "j", "s", "o", "n">>
Paths == {F1, F2}

K_a == <<"a">>
K_b == <<"b">>
K_c == <<"c">>
V_x == StrV(<<"x">>)
V_y == StrV(<<"y">>)

\* What a tracked file may hold: mappings, a mapping with two keys that are
\* method names, one with the key data, one with the key shutdown_flag, one
\* with the key files, and text that does not parse.
FileContents ==
    {D1(K_a, V_y),
     D1(K_b, V_y),
     D2(K_a, D1(K_b, V_y), K_b, V_y),
     D2(N_update, V_x, N_save, V_x),
     D1(N_data, D1(K_b, V_x)),
     D1(N_shutdown_flag, BoolV(FALSE)),
     D1(N_files, D1(K_b, V_x)),
     Raised}

Prefix == <<"P", "_">>
Environs == {<<>>, << <<<<"P", "_", "A", "_", "_", "B">>, <<"y">> >> >>, << <<<<"Q", "_", "A">>, <<"y">> >> >>}

ArgVectors ==
    {<< <<"-", "-", "a", ".", "c", "=", "z">> >>,
     << <<"-", "-", "a", "=", "1">>, <<"-", "v">> >>}

UpdateKeys == {K_a, <<"a", ".", "c">>, N_data}
UpdateValues == {V_x, StrV(<<"1">>)}

Callbacks == {"cb1", "cb2"}

(***************************************************************************)
(* Config.__init__                                                         *)
(***************************************************************************)
\* Singleton._instances as cls, the number of the instance stored for Config
\* (0: none); made counts the instances created, an instance's number being
\* its identity.  The handle's variables are those of the instance made last.
NoInstance == [cls |-> 0, made |-> 0]
OneInstance == [cls |-> 1, made |-> 1]

Heap0 == [a \in {FILE_DATA, ENV_DATA, ARGS_DATA, RUNTIME_DATA, DATA0} |-> EmptyObj]

\* Lines 200-203: the stamps of the files that exist.
InitStamps(fs, dk) ==
    [f \in {x \in Range(fs) : dk[x].exists} |-> dk[f].mtime]

\* The handle after lines 178-214, with exc set when the constructor raised.
Construct(fs, environ, args, typed, dk) ==
    LET h1 == IF fs # <<>> THEN LoadFromFiles(Heap0, fs, dk) ELSE Heap0
        e == LoadFromEnv(h1, environ, Prefix)
        parsed == IF args # <<>> THEN ParseArgs(args) ELSE EmptyLit
        h3 == IF e.ok /\ parsed # Raised THEN LoadFromArgs(e.h, parsed) ELSE h1
        st == [heap |-> h3, data |-> Ref(DATA0), attrs |-> EmptyMap,
               files |-> ListV(fs), shutdown_flag |-> BoolV(FALSE),
               exc |-> IF e.ok /\ parsed # Raised THEN NoExc ELSE "TypeError",
               msg |-> <<>>]
    IN  Resolve(st, typed)

\* The foreground thread between two calls; inside a call it holds the
\* call and the step of the resolution it is at.
Idle == [pc |-> "idle", step |-> 0, op |-> "", key |-> <<>>, val |-> Raised]

\* Observation record: calls made, the last foreground call and how it
\* ended, the runtime updates still in force (pins: those that returned
\* with data holding the value, and that no later update has written at,
\* above or below), whether shutdown() was called.
Hist0 == [nops |-> 0, writes |-> 0,
          last |-> [op |-> "__init__", key |-> <<>>, val |-> Raised, exc |-> NoExc,
                    msg |-> <<>>],
          pins |-> {}, down |-> FALSE]

\* The polling thread: where it is (off: never started; top: at the loop
\* test; sleep: in time.sleep; callbacks: in the loop of line 428; dead:
\* ended by an uncaught exception; exited: returned), the position in the
\* callback list, the callbacks invoked and those that raised in this
\* cycle, and the exception that ended the thread.  late: a round was
\* started after shutdown() had been called.  step, before: the step of the
\* resolution the thread is at and data as it was when the reload began.
PollOff == [pc |-> "off", i |-> 0, invoked |-> <<>>, failed |-> {}, exc |-> NoExc,
            late |-> FALSE, step |-> 0, before |-> Raised]

Init ==
    \E fs \in {<<>>, <<F1>>}, environ \in Environs, typed \in BOOLEAN, watch \in BOOLEAN,
       c1 \in {D1(K_a, V_x), D1(K_a, D1(K_b, V_x))} :
        \E dk \in {[f \in Paths |->
                      [exists |-> TRUE, mtime |-> 1,
                       content |-> IF f = F1 THEN c1 ELSE D1(K_a, D1(K_c, V_x))]]} :
        \E st \in {Construct(fs, environ, <<>>, typed, dk)} :
            /\ st.exc = NoExc
            /\ heap = Collect(st.heap, st.data, Bound(st.attrs, st.files, st.shutdown_flag))
            /\ data = st.data
            /\ attrs = st.attrs
            /\ shutdown_flag = st.shutdown_flag
            /\ use_dataclasses = typed
            /\ files = st.files
            /\ file_stamps = InitStamps(fs, dk)
            /\ update_callbacks = <<>>
            /\ disk = dk
            /\ fg = Idle
            /\ poll = IF watch THEN [PollOff EXCEPT !.pc = "top"] ELSE PollOff
            /\ hist = Hist0
            /\ instances = OneInstance

(***************************************************************************)
(* Foreground operations, each run to completion.                          *)
(***************************************************************************)
St == [heap |-> heap, data |-> data, attrs |-> attrs, files |-> files,
       shutdown_flag |-> shutdown_flag, exc |-> NoExc, msg |-> <<>>]

\* The handle's variables after an operation left it as st.
Commit(st) ==
    /\ heap' = Collect(st.heap, st.data, Bound(st.attrs, st.files, st.shutdown_flag))
    /\ data' = st.data
    /\ attrs' = st.attrs
    /\ files' = st.files
    /\ shutdown_flag' = st.shutdown_flag

\* Lines 396-406 of update: the merge into the runtime buffer.
UpdateRuntime(h, key, value) ==
    IF Has(key, ".")
    THEN DeepUpdateLit(h, RUNTIME_DATA, PathLit(Split(key, "."), value))
    ELSE DeepUpdateLit(h, RUNTIME_DATA, D1(key, value))

UpdateOp(st, key, value, typed) ==
    Resolve([st EXCEPT !.heap = UpdateRuntime(st.heap, key, value)], typed)

LoadArgsOp(st, args, typed) ==
    LET parsed == ParseArgs(args)
    IN  IF parsed = Raised THEN [st EXCEPT !.exc = "TypeError"]
        ELSE Resolve([st EXCEPT !.heap = LoadFromArgs(st.heap, parsed)], typed)

\* load_files(fs): self.files.extend(fs) raises AttributeError when
\* self.files is no list.
LoadFilesOp(st, fs, dk, typed) ==
    IF st.files.kind # "list" THEN [st EXCEPT !.exc = "AttributeError"]
    ELSE Resolve(LoadFromFilesOf([st EXCEPT !.files = ListV(@.ks \o fs)], dk), typed)

\* Two dotted keys of which one is a prefix of the other (or equal).
Related(k1, k2) ==
    LET p1 == Split(k1, ".")
        p2 == Split(k2, ".")
        n == IF Len(p1) < Len(p2) THEN Len(p1) ELSE Len(p2)
    IN  SubSeq(p1, 1, n) = SubSeq(p2, 1, n)

\* The value a tree (a Snap) holds at a path of keys, Absent when it holds
\* none.
Absent == Leaf("absent", <<>>)
RECURSIVE TreeAt(_, _)
TreeAt(t, path) ==
    IF path = <<>> THEN t
    ELSE IF t.kind # "lit" \/ path[1] \notin DOMAIN t.kids THEN Absent
    ELSE TreeAt(t.kids[path[1]], Tail(path))

\* The call that has just returned (or raised); any other step makes it
\* a thing of the past.
NoCall == [op |-> "", key |-> <<>>, val |-> Raised, exc |-> NoExc, msg |-> <<>>]
Past == [hist EXCEPT !.last = NoCall]
\* The polling thread has just reloaded, and how the reload ended.
Reloaded(st) ==
    [hist EXCEPT !.last = [op |-> "reload", key |-> <<>>, val |-> Raised, exc |-> st.exc,
                           msg |-> st.msg]]

Record(op, key, val, st) ==
    [hist EXCEPT !.nops = @ + 1,
                 !.last = [op |-> op, key |-> key, val |-> val, exc |-> st.exc,
                           msg |-> st.msg],
                 !.pins = IF op = "update"
                          THEN {p \in @ : ~Related(p.key, key)} \cup
                               (IF /\ st.exc = NoExc
                                   /\ val.kind = "leaf"
                                   /\ TreeAt(Snap(st.heap, st.data), Split(key, ".")) = val
                                THEN {[key |-> key, val |-> val]} ELSE {})
                          ELSE @]

Update(key, value) ==
    /\ hist.nops < MaxOps
    /\ \E st \in {UpdateOp(St, key, value, use_dataclasses)} :
           Commit(st) /\ hist' = Record("update", key, value, st)
    /\ UNCHANGED <<instances, use_dataclasses, file_stamps, update_callbacks, disk, fg, poll>>

LoadArgs(args) ==
    /\ hist.nops < MaxOps
    /\ \E st \in {LoadArgsOp(St, args, use_dataclasses)} :
           Commit(st) /\ hist' = Record("load_args", args, Raised, st)
    /\ UNCHANGED <<instances, use_dataclasses, file_stamps, update_callbacks, disk, fg, poll>>

LoadFilesCall(fs) ==
    /\ hist.nops < MaxOps
    /\ \E st \in {LoadFilesOp(St, fs, disk, use_dataclasses)} :
           Commit(st) /\ hist' = Record("load_files", <<>>, Raised, st)
    /\ UNCHANGED <<instances, use_dataclasses, file_stamps, update_callbacks, disk, fg, poll>>

\* register_update_callback with a callable; anything else is only logged.
RegisterUpdateCallback(cb) ==
    /\ Len(update_callbacks) < MaxCallbacks
    /\ update_callbacks' = Append(update_callbacks, cb)
    /\ hist' = Past
    /\ UNCHANGED <<instances, heap, data, attrs, use_dataclasses, files, file_stamps, shutdown_flag,
                   disk, fg, poll>>

Shutdown ==
    /\ ~hist.down
    /\ shutdown_flag' = BoolV(TRUE)
    /\ hist' = [Past EXCEPT !.down = TRUE]
    /\ UNCHANGED <<instances, heap, data, attrs, use_dataclasses, files, file_stamps,
                   update_callbacks, disk, fg, poll>>

\* The environment rewrites a file: new content, later modification time.
WriteFile(f, c) ==
    /\ hist.writes < MaxWrites
    /\ disk' = [disk EXCEPT ![f] = [exists |-> TRUE, mtime |-> disk[f].mtime + 1,
                                    content |-> c]]
    /\ hist' = [Past EXCEPT !.writes = @ + 1]
    /\ UNCHANGED <<instances, heap, data, attrs, use_dataclasses, files, file_stamps, shutdown_flag,
                   update_callbacks, fg, poll>>

(***************************************************************************)
(* Config._config_file_polling_thread                                      *)
(***************************************************************************)
\* Line 411: the loop test.
PollTest ==
    /\ poll.pc = "top"
    /\ poll' = IF Truthy(heap, shutdown_flag)
               THEN [poll EXCEPT !.pc = "exited"]
               ELSE [poll EXCEPT !.pc = "sleep", !.late = hist.down]
    /\ hist' = Past
    /\ UNCHANGED <<instances, heap, data, attrs, use_dataclasses, files, file_stamps, shutdown_flag,
                   update_callbacks, disk, fg>>

\* Lines 425-427: the reload of a change cycle.
ReloadOp(st, dk, typed) ==
    Resolve(LoadFromFilesOf([st EXCEPT !.heap = DataClear(st.heap, FILE_DATA)], dk), typed)

\* Line 415 with a self.files that is not iterable: the TypeError ends the
\* thread.
PollNotIterable ==
    /\ poll' = [poll EXCEPT !.pc = "dead", !.exc = "TypeError"]
    /\ hist' = Past
    /\ UNCHANGED <<instances, heap, data, attrs, files, file_stamps, shutdown_flag>>

\* Lines 412-427: the sleep ends, the stamps are compared and, when one
\* differs, the files are reloaded and data is resolved and projected.  An
\* exception of the reload is caught nowhere and ends the thread.
PollCheck ==
    /\ poll.pc = "sleep"
    /\ IF ~Iterable(files) THEN PollNotIterable
       ELSE \E ck \in {CheckStamps(IterItems(heap, files), disk, file_stamps, FALSE, 1)} :
           /\ file_stamps' = ck.stamps
           /\ IF ck.reload_needed
              THEN \E st \in {ReloadOp(St, disk, use_dataclasses)} :
                       /\ Commit(st)
                       /\ poll' = IF st.exc = NoExc
                                  THEN [poll EXCEPT !.pc = "callbacks", !.i = 1,
                                                    !.invoked = <<>>, !.failed = {}]
                                  ELSE [poll EXCEPT !.pc = "dead", !.exc = st.exc]
                       /\ hist' = Reloaded(st)
              ELSE /\ poll' = [poll EXCEPT !.pc = "top"]
                   /\ hist' = Past
                   /\ UNCHANGED <<instances, heap, data, attrs, files, shutdown_flag>>
    /\ UNCHANGED <<instances, use_dataclasses, update_callbacks, disk, fg>>

\* The callback loop without the try of line 429: a raising callback ends
\* the thread.
PollCallbackUnguarded(raises) ==
    /\ poll.pc = "callbacks"
    /\ poll.i <= Len(update_callbacks)
    /\ poll' = IF raises
               THEN [poll EXCEPT !.pc = "dead", !.exc = "Exception"]
               ELSE [poll EXCEPT !.i = @ + 1,
                                 !.invoked = Append(@, update_callbacks[poll.i])]
    /\ hist' = Past
    /\ UNCHANGED <<instances, heap, data, attrs, use_dataclasses, files, file_stamps, shutdown_flag,
                   update_callbacks, disk, fg>>

\* Lines 428-432: one callback is called; it returns or raises an Exception,
\* which is logged.
PollCallback(raises) ==
    /\ poll.pc = "callbacks"
    /\ poll.i <= Len(update_callbacks)
    /\ poll' = [poll EXCEPT !.i = @ + 1,
                            !.invoked = Append(@, update_callbacks[poll.i]),
                            !.failed = IF raises THEN @ \cup {poll.i} ELSE @]
    /\ hist' = Past
    /\ UNCHANGED <<instances, heap, data, attrs, use_dataclasses, files, file_stamps, shutdown_flag,
                   update_callbacks, disk, fg>>

\* The callback loop is exhausted: back to the loop test.
PollCallbacksDone ==
    /\ poll.pc = "callbacks"
    /\ poll.i > Len(update_callbacks)
    /\ poll' = [poll EXCEPT !.pc = "top"]
    /\ hist' = Past
    /\ UNCHANGED <<instances, heap, data, attrs, use_dataclasses, files, file_stamps, shutdown_flag,
                   update_callbacks, disk, fg>>

PollNext ==
    \/ PollTest
    \/ PollCheck
    \/ \E raises \in BOOLEAN : PollCallback(raises)
    \/ PollCallbacksDone

Environment ==
    \E c \in FileContents : WriteFile(F1, c)

\* The engine under foreground calls, with the polling thread reloading; no
\* callback is registered.
Next ==
    \/ \E key \in UpdateKeys, value \in UpdateValues : Update(key, value)
    \/ \E args \in ArgVectors : LoadArgs(args)
    \/ LoadFilesCall(<<F2>>)
    \/ Environment
    \/ PollTest
    \/ PollCheck
    \/ PollCallbacksDone

Spec == Init /\ [][Next]_vars

\* The polling thread with registered callbacks and shutdown.
NextWatch ==
    \/ \E cb \in Callbacks : RegisterUpdateCallback(cb)
    \/ Shutdown
    \/ Environment
    \/ PollNext

SpecWatch == Init /\ [][NextWatch]_vars

(***************************************************************************)
(* The two threads step by step.  Nothing in config.py takes a lock: the   *)
(* statements of a resolution run by the foreground and by the polling     *)
(* thread interleave.  A step is one statement of lines 372-376, or the    *)
(* validation and the projection that follow.                              *)
(***************************************************************************)
LastStep == 5

\* self._deep_update(self.data, <buffer n>) when self.data is no dict: the
\* loop body raises at d.get (a dict value) or at the item assignment.
MergeIntoNonDict(st, n) ==
    LET u == st.heap[CASE n = 1 -> FILE_DATA [] n = 2 -> ENV_DATA
                       [] n = 3 -> ARGS_DATA [] n = 4 -> RUNTIME_DATA]
    IN  IF u.ks = <<>> THEN st
        ELSE [st EXCEPT !.exc = IF IsDict(u.m[u.ks[1]]) THEN "AttributeError"
                                ELSE "TypeError"]

\* Step 0: self.data.clear(); steps 1-4: the four merges; step 5:
\* _validate_attribute_override and _update_attributes_from_data.
ResolveStep(st, step, typed) ==
    CASE step = 0 ->
            IF IsDict(st.data) THEN [st EXCEPT !.heap = DataClear(st.heap, st.data.ref)]
            ELSE [st EXCEPT !.exc = "AttributeError"]
      [] step \in 1..4 ->
            IF IsDict(st.data) THEN [st EXCEPT !.heap = MergeStep(st.heap, st.data.ref, step)]
            ELSE MergeIntoNonDict(st, step)
      [] step = LastStep ->
            IF ~IsDict(st.data) THEN [st EXCEPT !.exc = "AttributeError"]
            ELSE UpdateAttributesFromData(
                     ValidateAttributeOverride(st, st.heap, st.data.ref), typed)

\* update(key, value) up to the call of line 407.
FgUpdate(key, value) ==
    /\ fg.pc = "idle"
    /\ hist.nops < MaxThreadOps
    /\ heap' = Collect(UpdateRuntime(heap, key, value), data,
                       Bound(attrs, files, shutdown_flag))
    /\ fg' = [pc |-> "resolve", step |-> 0, op |-> "update", key |-> key, val |-> value]
    /\ hist' = Past
    /\ UNCHANGED <<instances, data, attrs, use_dataclasses, files, file_stamps, shutdown_flag,
                   update_callbacks, disk, poll>>

\* load_args(args) up to the call of line 446; a vector _parse_args raises
\* on ends the call at line 445.
FgLoadArgs(args) ==
    /\ fg.pc = "idle"
    /\ hist.nops < MaxThreadOps
    /\ IF ParseArgs(args) = Raised
       THEN /\ hist' = Record("load_args", args, Raised, [St EXCEPT !.exc = "TypeError"])
            /\ UNCHANGED <<heap, fg>>
       ELSE /\ heap' = Collect(LoadFromArgs(heap, ParseArgs(args)), data,
                               Bound(attrs, files, shutdown_flag))
            /\ fg' = [pc |-> "resolve", step |-> 0, op |-> "load_args", key |-> args,
                      val |-> Raised]
            /\ hist' = Past
    /\ UNCHANGED <<instances, data, attrs, use_dataclasses, files, file_stamps, shutdown_flag,
                   update_callbacks, disk, poll>>

\* One step of the foreground's resolution; the call returns after the
\* last one, or raises.
FgResolve ==
    /\ fg.pc = "resolve"
    /\ \E st \in {ResolveStep(St, fg.step, use_dataclasses)} :
           /\ Commit(st)
           /\ IF st.exc # NoExc \/ fg.step = LastStep
              THEN /\ fg' = Idle
                   /\ hist' = Record(fg.op, fg.key, fg.val, st)
              ELSE /\ fg' = [fg EXCEPT !.step = @ + 1]
                   /\ hist' = Past
    /\ UNCHANGED <<instances, use_dataclasses, file_stamps, update_callbacks, disk, poll>>

\* Lines 412-422: the sleep ends and the stamps are compared.
PollStamps ==
    /\ poll.pc = "sleep"
    /\ IF ~Iterable(files) THEN PollNotIterable
       ELSE \E ck \in {CheckStamps(IterItems(heap, files), disk, file_stamps, FALSE, 1)} :
           /\ file_stamps' = ck.stamps
           /\ poll' = IF ck.reload_needed
                      THEN [poll EXCEPT !.pc = "clear", !.before = Snap(heap, data)]
                      ELSE [poll EXCEPT !.pc = "top"]
           /\ hist' = Past
           /\ UNCHANGED <<instances, heap, data, attrs, files, shutdown_flag>>
    /\ UNCHANGED <<instances, use_dataclasses, update_callbacks, disk, fg>>

\* Line 425.
PollClearFiles ==
    /\ poll.pc = "clear"
    /\ heap' = Collect(DataClear(heap, FILE_DATA), data, Bound(attrs, files, shutdown_flag))
    /\ poll' = [poll EXCEPT !.pc = "load"]
    /\ hist' = Past
    /\ UNCHANGED <<instances, data, attrs, use_dataclasses, files, file_stamps, shutdown_flag,
                   update_callbacks, disk, fg>>

\* Line 426.
PollLoadFiles ==
    /\ poll.pc = "load"
    /\ \E st \in {LoadFromFilesOf(St, disk)} :
           /\ Commit(st)
           /\ poll' = IF st.exc # NoExc
                      THEN [poll EXCEPT !.pc = "dead", !.exc = st.exc]
                      ELSE [poll EXCEPT !.pc = "resolve", !.step = 0]
           /\ hist' = IF st.exc # NoExc THEN Reloaded(st) ELSE Past
    /\ UNCHANGED <<instances, use_dataclasses, file_stamps, update_callbacks, disk, fg>>

\* Line 427, one step of it; an exception ends the thread.
PollResolve ==
    /\ poll.pc = "resolve"
    /\ \E st \in {ResolveStep(St, poll.step, use_dataclasses)} :
           /\ Commit(st)
           /\ poll' = IF st.exc # NoExc
                      THEN [poll EXCEPT !.pc = "dead", !.exc = st.exc]
                      ELSE IF poll.step = LastStep
                      THEN [poll EXCEPT !.pc = "callbacks", !.i = 1,
                                        !.invoked = <<>>, !.failed = {},
                                        !.step = 0, !.before = Raised]
                      ELSE [poll EXCEPT !.step = @ + 1]
           /\ hist' = IF st.exc # NoExc \/ poll.step = LastStep THEN Reloaded(st) ELSE Past
    /\ UNCHANGED <<instances, use_dataclasses, file_stamps, update_callbacks, disk, fg>>

ThreadKeys == {K_a, <<"a", ".", "c">>}

\* The foreground updating while the polling thread reloads, statement by
\* statement.
NextThreads ==
    \/ \E key \in ThreadKeys : FgUpdate(key, V_x)
    \/ \E args \in ArgVectors : FgLoadArgs(args)
    \/ FgResolve
    \/ Environment
    \/ PollTest
    \/ PollStamps
    \/ PollClearFiles
    \/ PollLoadFiles
    \/ PollResolve
    \/ PollCallbacksDone

SpecThreads == Init /\ [][NextThreads]_vars

(***************************************************************************)
(* _load_from_files on its own: a handle tracking two or three files, each *)
(* holding a mapping, a document that is no mapping, text that does not    *)
(* parse, or missing.                                                      *)
(***************************************************************************)
F3 == <<"c", ".", "y", "m", "l">>

T_ax == D1(K_a, V_x)
T_abc == D1(K_a, D2(K_b, V_x, K_c, V_x))
T_ab == D1(K_a, D1(K_b, V_y))
T_a_b == D2(K_a, V_y, K_b, V_y)

FileStates ==
    {[exists |-> TRUE, mtime |-> 1, content |-> c] :
        c \in {T_ax, T_abc, T_ab, T_a_b, V_x, Raised}} \cup {Missing}

InitFiles ==
    \E fs \in {<<F1, F2>>, <<F1, F2, F3>>} :
        /\ disk \in {dk \in [{F1, F2, F3} -> FileStates] : Len(fs) = 2 => dk[F3] = Missing}
        /\ heap = Heap0
        /\ data = Ref(DATA0)
        /\ attrs = EmptyMap
        /\ use_dataclasses = FALSE
        /\ files = ListV(fs)
        /\ file_stamps = EmptyMap
        /\ shutdown_flag = BoolV(FALSE)
        /\ update_callbacks = <<>>
        /\ fg = Idle
        /\ poll = PollOff
        /\ hist = Hist0
        /\ instances = OneInstance

\* self._load_from_files()
LoadFromFilesCall ==
    /\ hist.last.op = "__init__"
    /\ \E st \in {LoadFromFilesOf(St, disk)} :
           /\ Commit(st)
           /\ hist' = Record("_load_from_files", <<>>, Raised, st)
    /\ UNCHANGED <<instances, use_dataclasses, file_stamps, update_callbacks, disk, fg, poll>>

NextFiles == LoadFromFilesCall

SpecFiles == InitFiles /\ [][NextFiles]_vars

(***************************************************************************)
(* validate_config on a handle constructed from one file that holds the    *)
(* namespace.                                                              *)
(***************************************************************************)
K_d == <<"d">>
K_mqtt == <<"m", "q", "t", "t">>
K_servers == <<"s", "e", "r", "v", "e", "r", "s">>
K_s1 == <<"s", "1">>
K_s2 == <<"s", "2">>
K_address == <<"a", "d", "d", "r", "e", "s", "s">>

Namespaces ==
    {D1(K_mqtt, D1(K_servers, D2(K_s1, D1(K_address, V_x), K_s2, EmptyLit))),
     D1(K_a, EmptyLit),
     D1(K_a, V_x),
     D1(K_a, D2(K_b, D1(K_c, V_x), K_d, D1(K_c, V_y))),
     D1(K_a, D2(K_b, V_x, K_d, D1(K_c, V_y))),
     EmptyLit}

P_mqtt_servers_any_address ==
    K_mqtt \o <<".">> \o K_servers \o <<".">> \o Wildcard \o <<".">> \o K_address
P_mqtt_servers_any == K_mqtt \o <<".">> \o K_servers \o <<".">> \o Wildcard
P_a_any == <<"a", ".", "%">>
P_a_any_c == <<"a", ".", "%", ".", "c">>

Patterns ==
    {P_mqtt_servers_any_address, P_mqtt_servers_any, P_a_any, P_a_any_c,
     <<"a">>, <<"a", ".", "b">>, <<"a", ".", "d", ".", "c">>, <<"%">>, <<"%", ".", "%">>,
     <<"b">>, <<>>}

\* The lists validate_config is called with: one or two patterns.
PatternLists == {<<p>> : p \in Patterns} \cup {<<p, q>> : p, q \in Patterns}

InitValidate ==
    \E ns \in Namespaces, typed \in BOOLEAN :
        \E dk \in {[f \in Paths |-> IF f = F1
                                     THEN [exists |-> TRUE, mtime |-> 1, content |-> ns]
                                     ELSE Missing]} :
        \E st \in {Construct(<<F1>>, <<>>, <<>>, typed, dk)} :
            /\ st.exc = NoExc
            /\ heap = Collect(st.heap, st.data, Bound(st.attrs, st.files, st.shutdown_flag))
            /\ data = st.data
            /\ attrs = st.attrs
            /\ shutdown_flag = st.shutdown_flag
            /\ use_dataclasses = typed
            /\ files = st.files
            /\ file_stamps = InitStamps(<<F1>>, dk)
            /\ update_callbacks = <<>>
            /\ disk = dk
            /\ fg = Idle
            /\ poll = PollOff
            /\ hist = Hist0
            /\ instances = OneInstance

\* validate_config(keys), called on the handle as constructed; hist.last
\* holds the list as key, how the call ended, and the keys the error names.
ValidateConfigCall(keys) ==
    /\ hist.last.op = "__init__"
    /\ \E st \in {ValidateConfig(St, keys)} :
           /\ Commit(st)
           /\ hist' = [hist EXCEPT !.last = [op |-> "validate_config", key |-> keys,
                                              val |-> Raised, exc |-> st.exc, msg |-> st.msg]]
    /\ UNCHANGED <<instances, use_dataclasses, file_stamps, update_callbacks, disk, fg, poll>>

NextValidate == \E keys \in PatternLists : ValidateConfigCall(keys)

SpecValidate == InitValidate /\ [][NextValidate]_vars

(***************************************************************************)
(* _deep_update on its own: the dict d (at data's address) and the dict u  *)
(* (held by the caller, fg.val), each built of a literal; the function is  *)
(* applied once and once more.                                             *)
(***************************************************************************)
L_x == ListV(<< <<"x">> >>)
L_xy == ListV(<< <<"x">>, <<"y">> >>)

MergeTrees ==
    {EmptyLit,
     D1(K_a, V_x),
     D1(K_a, V_y),
     D1(K_b, V_x),
     D1(K_a, D1(K_b, V_x)),
     D1(K_a, D2(K_b, V_y, K_c, V_x)),
     D1(K_a, D1(K_b, D1(K_c, V_x))),
     D1(K_a, L_x),
     D1(K_a, L_xy),
     D1(K_a, D1(K_b, L_x)),
     D2(K_a, V_x, K_b, D1(K_c, V_y))}

InitMerge ==
    \E t \in MergeTrees, s \in MergeTrees :
        \E b \in {Build(BuildKeys(Heap0, DATA0, t, 1), s)} :
            /\ heap = b.h
            /\ data = Ref(DATA0)
            /\ fg = [Idle EXCEPT !.op = "_deep_update", !.val = b.v]
            /\ attrs = EmptyMap
            /\ use_dataclasses = FALSE
            /\ files = ListV(<<>>)
            /\ file_stamps = EmptyMap
            /\ shutdown_flag = BoolV(FALSE)
            /\ update_callbacks = <<>>
            /\ disk = [f \in Paths |-> Missing]
            /\ poll = PollOff
            /\ hist = Hist0
            /\ instances = NoInstance

\* self._deep_update(d, u); fg.step counts the calls.
DeepUpdateCall ==
    /\ fg.step < MaxMerges
    /\ heap' = DeepUpdate(heap, data.ref, fg.val.ref)
    /\ fg' = [fg EXCEPT !.step = @ + 1]
    /\ UNCHANGED <<instances, data, attrs, use_dataclasses, files, file_stamps, shutdown_flag,
                   update_callbacks, disk, poll, hist>>

NextMerge == DeepUpdateCall

SpecMerge == InitMerge /\ [][NextMerge]_vars

(***************************************************************************)
(* The construction with an environment: the foreground is about to call   *)
(* Config(file=F1, env_prefix=Prefix) with os.environ as fg.key; a         *)
(* constructor that raises leaves no handle.                               *)
(***************************************************************************)
EnvVars ==
    {<<<<"P", "_", "D", "B", "_", "_", "H", "O", "S", "T">>,
       <<"l", "o", "c", "a", "l", "h", "o", "s", "t">>>>,
     <<<<"P", "_", "A">>, <<"1">>>>,
     <<<<"P", "_", "A", "_", "_", "B">>, <<"y">>>>,
     <<<<"P", "_", "A", "_", "_", "B", "_", "_", "C">>, <<"3", ".", "5">>>>,
     <<<<"Q", "_", "A">>, <<"z">>>>,
     <<<<"p", "_", "a">>, <<"z">>>>,
     <<<<"A", "P", "_", "B">>, <<"z">>>>}

\* os.environ: up to two variables, in the order the mapping yields them.
EnvVectors ==
    {<<>>} \cup {<<e>> : e \in EnvVars}
           \cup {v \in EnvVars \X EnvVars : v[1][1] # v[2][1]}

EnvFiles ==
    {EmptyLit,
     D1(K_a, D1(K_b, V_x)),
     D1(<<"d", "b">>, D2(<<"h", "o", "s", "t">>, V_x, <<"p", "o", "r", "t">>, V_y))}

InitEnv ==
    \E environ \in EnvVectors, c1 \in EnvFiles, typed \in BOOLEAN :
        /\ fg = [Idle EXCEPT !.op = "__init__", !.key = environ]
        /\ disk = [f \in Paths |-> IF f = F1
                                     THEN [exists |-> TRUE, mtime |-> 1, content |-> c1]
                                     ELSE Missing]
        /\ use_dataclasses = typed
        /\ heap = Heap0
        /\ data = Ref(DATA0)
        /\ attrs = EmptyMap
        /\ files = ListV(<<>>)
        /\ file_stamps = EmptyMap
        /\ shutdown_flag = BoolV(FALSE)
        /\ update_callbacks = <<>>
        /\ poll = PollOff
        /\ hist = [Hist0 EXCEPT !.last = NoCall]
        /\ instances = NoInstance

\* Config(file=F1, env_prefix=Prefix, use_dataclasses=typed)
ConstructCall ==
    /\ hist.last.op = ""
    /\ fg.op = "__init__"
    /\ \E st \in {Construct(<<F1>>, fg.key, <<>>, use_dataclasses, disk)} :
           /\ Commit(st)
           /\ file_stamps' = InitStamps(<<F1>>, disk)
           /\ instances' = [cls |-> IF st.exc = NoExc THEN 1 ELSE 0, made |-> 1]
           /\ hist' = [hist EXCEPT !.last = [op |-> "__init__", key |-> <<>>, val |-> Raised,
                                              exc |-> st.exc, msg |-> st.msg]]
    /\ UNCHANGED <<use_dataclasses, update_callbacks, disk, fg, poll>>

NextEnv == ConstructCall

SpecEnv == InitEnv /\ [][NextEnv]_vars

(***************************************************************************)
(* load_args on a handle constructed without files, environment and        *)
(* arguments; hist.last.key holds the vector of the call.                  *)
(***************************************************************************)
ArgTokens ==
    {<<"-", "-", "a", "=", "1">>,
     <<"-", "-", "a", "=", "x">>,
     <<"-", "-", "a", ".", "b", "=", "2">>,
     <<"-", "-", "a", ".", "c", "=", "3", ".", "5">>,
     <<"-", "-", "a", ".", "b">>,
     <<"-", "-", "v">>,
     <<"-", "x">>,
     <<"p", "o", "s">>}

\* The vectors: up to two tokens, and one of three.
ArgLists ==
    {<<>>} \cup {<<t>> : t \in ArgTokens} \cup (ArgTokens \X ArgTokens)
           \cup {<< <<"-", "-", "a", "=", "5">>, <<"-", "-", "a", ".", "b">>,
                    <<"-", "-", "a", "=", "6">> >>}

InitArgs ==
    \E typed \in BOOLEAN :
        \E st \in {Construct(<<>>, <<>>, <<>>, typed, [f \in Paths |-> Missing])} :
            /\ heap = Collect(st.heap, st.data, Bound(st.attrs, st.files, st.shutdown_flag))
            /\ data = st.data
            /\ attrs = st.attrs
            /\ shutdown_flag = st.shutdown_flag
            /\ use_dataclasses = typed
            /\ files = st.files
            /\ file_stamps = EmptyMap
            /\ update_callbacks = <<>>
            /\ disk = [f \in Paths |-> Missing]
            /\ fg = Idle
            /\ poll = PollOff
            /\ hist = Hist0
            /\ instances = OneInstance

NextArgs == \E args \in ArgLists : LoadArgs(args)

SpecArgs == InitArgs /\ [][NextArgs]_vars

(***************************************************************************)
(* The singleton: Config(...) through Singleton.__call__, Config._reset(), *)
(* and update on the instance made last.  hist.last holds the file         *)
(* argument of the call as key and the instance it returned as val.        *)
(***************************************************************************)
\* The test of line 51 with an instance never found.
NeverStored(inst) == FALSE

\* Line 51, negated: cls is in cls._instances.
Stored(inst) == inst.cls # 0

Instance(n) == Leaf("instance", <<n>>)

InitSingleton ==
    \E c1 \in {D1(K_a, V_x), D1(K_b, D1(K_c, V_x))} :
        /\ disk = [f \in Paths |-> [exists |-> TRUE, mtime |-> 1,
                                     content |-> IF f = F1 THEN c1 ELSE D1(K_d, V_y)]]
        /\ instances = NoInstance
        /\ heap = Heap0
        /\ data = Ref(DATA0)
        /\ attrs = EmptyMap
        /\ use_dataclasses = FALSE
        /\ files = ListV(<<>>)
        /\ file_stamps = EmptyMap
        /\ shutdown_flag = BoolV(FALSE)
        /\ update_callbacks = <<>>
        /\ fg = Idle
        /\ poll = PollOff
        /\ hist = [Hist0 EXCEPT !.last = NoCall]

\* Config(file=fs, args=args, use_dataclasses=typed): lines 50-53.  A
\* constructor that raises stores nothing.
ConfigCall(fs, args, typed) ==
    IF Stored(instances)
    THEN /\ hist' = [hist EXCEPT !.last = [op |-> "Config", key |-> fs,
                                            val |-> Instance(instances.cls),
                                            exc |-> NoExc, msg |-> <<>>]]
         /\ UNCHANGED <<instances, heap, data, attrs, use_dataclasses, files, file_stamps,
                        shutdown_flag, update_callbacks, disk, fg, poll>>
    ELSE /\ instances.made < MaxInstances
         /\ \E st \in {Construct(fs, <<>>, args, typed, disk)} :
                /\ Commit(st)
                /\ use_dataclasses' = typed
                /\ file_stamps' = InitStamps(fs, disk)
                /\ update_callbacks' = <<>>
                /\ instances' = [cls |-> IF st.exc = NoExc THEN instances.made + 1 ELSE 0,
                                 made |-> instances.made + 1]
                /\ hist' = [hist EXCEPT !.nops = 0, !.pins = {},
                                        !.last = [op |-> "Config", key |-> fs,
                                                  val |-> IF st.exc = NoExc
                                                          THEN Instance(instances.made + 1)
                                                          ELSE Raised,
                                                  exc |-> st.exc, msg |-> st.msg]]
         /\ UNCHANGED <<disk, fg, poll>>

\* Config._reset(): cls._instances.clear()
Reset ==
    /\ instances' = [instances EXCEPT !.cls = 0]
    /\ hist' = [hist EXCEPT !.last = [NoCall EXCEPT !.op = "_reset"]]
    /\ UNCHANGED <<heap, data, attrs, use_dataclasses, files, file_stamps, shutdown_flag,
                   update_callbacks, disk, fg, poll>>

NextSingleton ==
    \/ \E fs \in {<<>>, <<F1>>, <<F2>>}, args \in {<<>>, << <<"-", "-", "a", "=", "2">> >>},
          typed \in BOOLEAN : ConfigCall(fs, args, typed)
    \/ Reset
    \/ \E key \in {K_a, K_c}, value \in {V_y} : instances.made > 0 /\ Update(key, value)
    \/ \E cb \in {"cb1"} : instances.made > 0 /\ RegisterUpdateCallback(cb)

SpecSingleton == InitSingleton /\ [][NextSingleton]_vars

(***************************************************************************)
(* _convert_value on its own: the argument (fg.val) and what the call      *)
(* returned (hist.last.val).                                               *)
(***************************************************************************)
\* The strings explored: all of up to MaxStrLen characters of an alphabet of
\* digits, point, sign and letters of the tokens, and some longer ones.  The
\* alphabet has no e, underscore or blank: on such strings int() and
\* float() accept exactly what IntParses and FloatParses describe.
ConvertAlphabet == {"0", "1", "2", ".", "-", "y", "N"}

ConvertStrings ==
    UNION {[1..n -> ConvertAlphabet] : n \in 0..MaxStrLen}
    \cup {<<"t", "r", "u", "e">>, <<"T", "r", "u", "e">>, <<"T", "R", "U", "E">>,
          <<"y", "e", "s">>, <<"Y", "e", "s">>, <<"F", "a", "l", "s", "e">>,
          <<"f", "a", "l", "s", "e">>, <<"n", "o">>, <<"N", "O">>, <<"n">>,
          <<"h", "e", "l", "l", "o">>, <<"3", ".", "1", "4">>, <<"4", "2">>,
          <<"1", ".", "0", ".", "1">>, <<"t", "r", "u", "e", ".">>, <<"o", "n">>}

\* The arguments: strings and values that are no strings.
ConvertInputs ==
    {StrV(s) : s \in ConvertStrings}
    \cup {BoolV(TRUE), BoolV(FALSE), Leaf("int", <<"1">>), Leaf("int", <<"0">>),
          Leaf("float", <<"1", ".", "5">>), Leaf("none", <<>>), L_x, D1(K_a, V_x)}

InitConvert ==
    /\ fg \in {[Idle EXCEPT !.op = "_convert_value", !.val = v] : v \in ConvertInputs}
    /\ heap = Heap0
    /\ data = Ref(DATA0)
    /\ attrs = EmptyMap
    /\ use_dataclasses = FALSE
    /\ files = ListV(<<>>)
    /\ file_stamps = EmptyMap
    /\ shutdown_flag = BoolV(FALSE)
    /\ update_callbacks = <<>>
    /\ disk = [f \in Paths |-> Missing]
    /\ poll = PollOff
    /\ hist = Hist0
    /\ instances = NoInstance

\* _convert_value(value)
ConvertValueCall ==
    /\ hist.last.op = "__init__"
    /\ hist' = [hist EXCEPT !.last = [op |-> "_convert_value", key |-> <<>>,
                                       val |-> ConvertValue(fg.val),
                                       exc |-> NoExc, msg |-> <<>>]]
    /\ UNCHANGED <<instances, heap, data, attrs, use_dataclasses, files, file_stamps, shutdown_flag,
                   update_callbacks, disk, fg, poll>>

NextConvert == ConvertValueCall

SpecConvert == InitConvert /\ [][NextConvert]_vars

(***************************************************************************)
(* Typed mode: a handle constructed with use_dataclasses from one file,    *)
(* whose holder assigns fields of the records it was given, calls update   *)
(* and loads a second file.                                                *)
(***************************************************************************)
\* r.f = v and r.f.g = v on an instance of a generated dataclass.  Line 335
\* makes the class with make_dataclass(class_name, fields): frozen is left
\* at its default False, so the assignment binds the field.
RECURSIVE HasField(_, _)
HasField(r, path) ==
    /\ path # <<>>
    /\ r.kind = "rec"
    /\ path[1] \in DOMAIN r.kids
    /\ Len(path) > 1 => HasField(r.kids[path[1]], Tail(path))

RECURSIVE RecSet(_, _, _)
RecSet(r, path, v) ==
    IF Len(path) = 1 THEN Rec([r.kids EXCEPT ![path[1]] = v])
    ELSE Rec([r.kids EXCEPT ![path[1]] = RecSet(@, Tail(path), v)])

K_n == <<"n">>
V_z == StrV(<<"z">>)

\* What the first file holds at construction.
TypedFirst ==
    {D1(K_a, D1(K_b, V_x)),
     D1(K_a, D2(K_b, V_x, K_c, D1(K_d, V_y)))}

\* What the second file holds: keys that are identifiers, keys with a
\* hyphen, a space, a dot, two keys that differ in hyphen and underscore
\* only, a key that starts with a digit, a key that is a keyword.
TypedSecond ==
    {D1(K_a, D1(K_b, V_y)),
     D1(K_n, D2(<<"a", "-", "b">>, V_x, <<"c", " ", "d">>, V_y)),
     D1(K_n, D1(K_a, D1(<<"x", ".", "y">>, V_x))),
     D1(K_n, D2(<<"a", "-", "b">>, V_x, <<"a", "_", "b">>, V_y)),
     D1(K_n, D1(<<"1", "x">>, V_x)),
     D1(K_n, D1(<<"c", "l", "a", "s", "s">>, V_x))}

FieldPaths == {<<K_b>>, <<K_c, K_d>>, <<<<"a", "_", "b">>>>}

InitTyped ==
    \E c1 \in TypedFirst, c2 \in TypedSecond :
        \E dk \in {[f \in Paths |-> [exists |-> TRUE, mtime |-> 1,
                                      content |-> IF f = F1 THEN c1 ELSE c2]]} :
        \E st \in {Construct(<<F1>>, <<>>, <<>>, TRUE, dk)} :
            /\ st.exc = NoExc
            /\ heap = Collect(st.heap, st.data, Bound(st.attrs, st.files, st.shutdown_flag))
            /\ data = st.data
            /\ attrs = st.attrs
            /\ shutdown_flag = st.shutdown_flag
            /\ use_dataclasses = TRUE
            /\ files = st.files
            /\ file_stamps = InitStamps(<<F1>>, dk)
            /\ update_callbacks = <<>>
            /\ disk = dk
            /\ fg = Idle
            /\ poll = PollOff
            /\ hist = Hist0
            /\ instances = OneInstance

\* The holder's handle.k.path = v, for a record attribute k.
SetRecordField(k, path, v) ==
    /\ k \in DOMAIN attrs
    /\ HasField(attrs[k], path)
    /\ attrs' = [attrs EXCEPT ![k] = RecSet(@, path, v)]
    /\ hist' = [hist EXCEPT !.last = [op |-> "setattr", key |-> k, val |-> v,
                                       exc |-> NoExc, msg |-> <<>>]]
    /\ UNCHANGED <<instances, heap, data, use_dataclasses, files, file_stamps, shutdown_flag,
                   update_callbacks, disk, fg, poll>>

NextTyped ==
    \/ \E k \in {K_a, K_n}, path \in FieldPaths, v \in {V_y, V_z} : SetRecordField(k, path, v)
    \/ \E key \in {<<"a", ".", "b">>, K_c}, value \in {V_y, V_z} : Update(key, value)
    \/ LoadFilesCall(<<F2>>)

SpecTyped == InitTyped /\ [][NextTyped]_vars

(***************************************************************************)
(* What the properties speak of: values as Python's == compares them, the  *)
(* structural merge as the specification defines it, the value at a path.  *)
(***************************************************************************)
EmptyTree == Lit(<<>>, EmptyMap)

\* A buffer (an address of the heap h) as a pure tree.
BufIn(h, a) == Snap(h, Ref(a))
Buf(a) == BufIn(heap, a)

\* Structural merge of the tree s into the tree t.
RECURSIVE PureMerge(_, _)
PureMerge(t, s) ==
    Lit(<<>>, [k \in (DOMAIN t.kids) \cup (DOMAIN s.kids) |->
                 IF k \notin DOMAIN s.kids THEN t.kids[k]
                 ELSE IF s.kids[k].kind # "lit" THEN s.kids[k]
                 ELSE IF k \in DOMAIN t.kids /\ t.kids[k].kind = "lit"
                 THEN PureMerge(t.kids[k], s.kids[k])
                 ELSE s.kids[k]])

\* The empty mapping with files, env, args and runtime merged into it.
MergedIn(h) ==
    PureMerge(PureMerge(PureMerge(PureMerge(EmptyTree, BufIn(h, FILE_DATA)),
                                  BufIn(h, ENV_DATA)),
                        BufIn(h, ARGS_DATA)),
              BufIn(h, RUNTIME_DATA))
MergedBuffers == MergedIn(heap)

\* The key paths a tree holds a value at.
RECURSIVE PathsOf(_)
PathsOf(t) ==
    IF t.kind # "lit" THEN {}
    ELSE UNION {{<<k>>} \cup {<<k>> \o q : q \in PathsOf(t.kids[k])} : k \in DOMAIN t.kids}

\* The four buffers in the order of precedence.
Buffers == <<Buf(FILE_DATA), Buf(ENV_DATA), Buf(ARGS_DATA), Buf(RUNTIME_DATA)>>

\* getattr(handle, k), Absent when there is no such attribute.
GetAttr(k) ==
    IF k = N_data THEN Snap(heap, data)
    ELSE IF k = N_files THEN files
    ELSE IF k = N_shutdown_flag THEN shutdown_flag
    ELSE IF k \in DOMAIN attrs THEN Snap(heap, attrs[k])
    ELSE Absent

\* The field a record holds at a path of names.
RECURSIVE RecAt(_, _)
RecAt(v, path) ==
    IF path = <<>> THEN v
    ELSE IF v.kind # "rec" \/ path[1] \notin DOMAIN v.kids THEN Absent
    ELSE RecAt(v.kids[path[1]], Tail(path))

\* The files buffer the specification asks for: the contents of the
\* readable tracked files merged in list order.
RECURSIVE FilesPure(_, _, _, _)
FilesPure(acc, fs, dk, i) ==
    IF i > Len(fs) THEN acc
    ELSE LET c == FileAt(dk, fs[i])
         IN  IF c.exists /\ c.content.kind = "lit"
             THEN FilesPure(PureMerge(acc, Snap(EmptyMap, c.content)), fs, dk, i + 1)
             ELSE FilesPure(acc, fs, dk, i + 1)

\* A foreground mutating operation has just returned.
Returned ==
    /\ hist.last.op \in {"__init__", "update", "load_files", "load_args"}
    /\ hist.last.exc = NoExc

(***************************************************************************)
(* Properties.                                                             *)
(***************************************************************************)

\* C1: precedence.  After construction and any load_files, load_args and
\* update calls, at every key path that more than one buffer holds a value
\* at, data holds the value of the latest of these buffers in the order
\* files < env < args < runtime.  Read in the code's favour: for the
\* non-mapping values, which a merge moves as a whole, and for the paths no
\* later buffer has replaced a prefix of by a non-mapping.
C1_Precedence ==
    Returned =>
        \A q \in UNION {PathsOf(Buffers[i]) : i \in 1..4} :
            LET holders == {i \in 1..4 : TreeAt(Buffers[i], q) # Absent}
                latest == CHOOSE i \in holders : \A j \in holders : j <= i
                shadowed == \E j \in 1..4, n \in 1..(Len(q) - 1) :
                               /\ j > latest
                               /\ TreeAt(Buffers[j], SubSeq(q, 1, n)) \notin {Absent}
                               /\ TreeAt(Buffers[j], SubSeq(q, 1, n)).kind # "lit"
            IN  (/\ Cardinality(holders) >= 2
                 /\ TreeAt(Buffers[latest], q).kind # "lit"
                 /\ ~shadowed)
                    => TreeAt(Snap(heap, data), q) = TreeAt(Buffers[latest], q)

\* C2: whenever a foreground mutating operation has returned, data equals
\* the empty mapping with the files, env, args and runtime buffers merged
\* into it in that order, as the buffers stand.
C2_DataIsOrderedMerge ==
    Returned => Snap(heap, data) = MergedBuffers

\* C3: the buffers are independent.  No step changes the env buffer, only
\* load_args changes the args buffer, only update the runtime buffer, and
\* only load_files and the polling thread's reload the files buffer; the
\* resolution changes none of them.
C3_BuffersIndependent ==
    [][/\ BufIn(heap', ENV_DATA) = Buf(ENV_DATA)
       /\ (hist'.last.op # "load_args" => BufIn(heap', ARGS_DATA) = Buf(ARGS_DATA))
       /\ (hist'.last.op # "update" => BufIn(heap', RUNTIME_DATA) = Buf(RUNTIME_DATA))
       /\ ((hist'.last.op # "load_files" /\ poll' = poll)
              => BufIn(heap', FILE_DATA) = Buf(FILE_DATA))]_vars

\* C4: a runtime update keeps its precedence.  Once update(k, v) with a
\* non-mapping v has returned, data holds v at the path k after every later
\* load_files, load_args and reload, until an update writes at k, at a
\* prefix of k or below k (hist.pins: the updates still in force).
C4_UpdatePersists ==
    (hist.last.op \in {"load_files", "load_args", "reload"} /\ hist.last.exc = NoExc) =>
        \A u \in hist.pins : TreeAt(Snap(heap, data), Split(u.key, ".")) = u.val

\* C5: nested-path round trip.  After update(k, v) has returned, data holds
\* v at the path p1, ..., pn of the dotted key k, the attribute k is v for a
\* key of one segment, and in typed mode the attribute path reads v.
C5_NestedPathRoundTrip ==
    (hist.last.op = "update" /\ hist.last.exc = NoExc) =>
        LET path == Split(hist.last.key, ".")
        IN  /\ TreeAt(Snap(heap, data), path) = hist.last.val
            /\ (Len(path) = 1 => GetAttr(hist.last.key) = hist.last.val)
            /\ (use_dataclasses => RecAt(GetAttr(path[1]), Tail(path)) = hist.last.val)

\* C6: the change cycle of the polling thread.  A check that finds a
\* tracked file's modification time changed records the new times, rebuilds
\* the files buffer from the files, re-resolves data, and goes on to the
\* callbacks; the callback loop ends with every registered callback invoked
\* once, in registration order.
C6_ChangeCycle ==
    [][/\ (poll.pc = "sleep" /\ poll' # poll /\ files.kind = "list"
             /\ CheckStamps(files.ks, disk, file_stamps, FALSE, 1).reload_needed)
          => /\ poll'.pc = "callbacks"
             /\ file_stamps' = CheckStamps(files.ks, disk, file_stamps, FALSE, 1).stamps
             /\ BufIn(heap', FILE_DATA) = FilesPure(EmptyTree, files.ks, disk, 1)
             /\ Snap(heap', data') = MergedIn(heap')
       /\ (poll.pc = "callbacks" /\ poll'.pc = "top")
          => poll.invoked = update_callbacks]_vars

\* C7: callback isolation.  A step of the callback loop, the callback
\* raising or not, leaves the thread in the loop at the next callback or
\* back at the loop test, never ended by the exception; it changes neither
\* data nor the buffers nor the projection; and the loop is left only when
\* every registered callback has been invoked, in registration order.
C7_CallbackIsolation ==
    [][(poll.pc = "callbacks" /\ poll' # poll)
          => /\ poll'.pc \in {"callbacks", "top"}
             /\ poll'.exc = NoExc
             /\ poll'.pc = "callbacks"
                  => /\ poll'.i = poll.i + 1
                     /\ poll'.invoked = Append(poll.invoked, update_callbacks[poll.i])
             /\ poll'.pc = "top" => poll.invoked = update_callbacks
             /\ <<heap, data, attrs, file_stamps>>' = <<heap, data, attrs, file_stamps>>]_vars

\* C7, reached: the first of two callbacks raised, the second was invoked
\* all the same, and the thread has gone on to its next sleep.
C7_Witness ==
    /\ poll.pc = "sleep"
    /\ 1 \in poll.failed
    /\ Len(poll.invoked) = 2
    /\ poll.invoked = update_callbacks

\* C8: the polling thread stops only on shutdown.  It is never ended by
\* what a reload produces, and it returns only after shutdown() was called.
C8_LoopStopsOnlyOnShutdown ==
    /\ poll.pc # "dead"
    /\ poll.pc = "exited" => hist.down

\* C9: cooperative shutdown.  Once shutdown() has been called the thread
\* completes the round it is in and starts no further one.
C9_CooperativeShutdown ==
    ~poll.late

\* C10: no partial state is visible.  While the polling thread reloads, the
\* foreground, between two of its calls, reads in data either what it held
\* when the reload began or the complete merge of the four buffers.
C10_NoPartialStateVisible ==
    (fg.pc = "idle" /\ poll.pc \in {"clear", "load", "resolve"})
        => Snap(heap, data) \in {poll.before, MergedBuffers}

\* A mutating operation, the polling thread's reload included, has completed.
Completed ==
    /\ hist.last.op \in {"__init__", "update", "load_files", "load_args", "reload"}
    /\ hist.last.exc = NoExc

\* The record with the fields and the leaf values of a tree.
RECURSIVE RecordOf(_)
RecordOf(t) ==
    IF t.kind # "lit" THEN t
    ELSE Rec([n \in {Sanitize(k) : k \in DOMAIN t.kids} |->
                RecordOf(t.kids[CHOOSE k \in DOMAIN t.kids : Sanitize(k) = n])])

\* C11: the projection mirrors data.  After a mutating operation (the
\* construction, load_files, load_args, update, a reload) has completed,
\* the handle has an attribute for every top-level key of data: the value
\* itself for a non-mapping, the mapping when typed mode is off, the record
\* with equal leaves when typed mode is on.
C11_ProjectionMirrorsData ==
    (Completed /\ Snap(heap, data).kind = "lit") =>
        \A k \in DOMAIN Snap(heap, data).kids :
            GetAttr(k) = IF use_dataclasses
                         THEN RecordOf(Snap(heap, data).kids[k])
                         ELSE Snap(heap, data).kids[k]

\* C12: the projection is recomputed, not patched.  After a reload has
\* completed, every projected attribute of the handle is a top-level key of
\* data and every top-level key of data is projected: a key that has left
\* data has left the handle.
C12_ProjectionRecomputed ==
    (hist.last.op = "reload" /\ hist.last.exc = NoExc /\ Snap(heap, data).kind = "lit") =>
        DOMAIN attrs = (DOMAIN Snap(heap, data).kids) \ {N_data, N_files, N_shutdown_flag}

\* The names bound to a callable that are top-level keys of data.
Colliding(h, d) ==
    IF Snap(h, d).kind = "lit" THEN (DOMAIN Snap(h, d).kids) \cap MethodNames ELSE {}

C14_FilesBufferRebuilt ==
    [][(hist'.last.op \in {"load_files", "reload"} /\ hist'.last.exc = NoExc)
          => /\ files.kind = "list"
             /\ files'.kind = "list"
             /\ Len(files'.ks) >= Len(files.ks)
             /\ SubSeq(files'.ks, 1, Len(files.ks)) = files.ks
             /\ hist'.last.op = "reload" => files'.ks = files.ks
             /\ BufIn(heap', FILE_DATA) = FilesPure(EmptyTree, files'.ks, disk', 1)]_vars

\* The paths a tree holds a non-mapping at.
LeafPaths(t) == {q \in PathsOf(t) : TreeAt(t, q).kind # "lit"}

\* The tree s holds a non-mapping at a proper prefix of the path q.
CutBy(s, q) ==
    \E n \in 1..(Len(q) - 1) : SubSeq(q, 1, n) \in LeafPaths(s)

\* What a tracked file contributes: its mapping, nothing when it is not
\* there, does not parse, or holds no mapping.
Contribution(f) ==
    IF f \in Range(files.ks) /\ disk[f].exists /\ disk[f].content.kind = "lit"
    THEN Snap(EmptyMap, disk[f].content)
    ELSE EmptyTree

C16_SkipAndContinue ==
    hist.last.op = "_load_from_files"
        => /\ hist.last.exc = NoExc
           /\ Buf(FILE_DATA) = FilesPure(EmptyTree, files.ks, disk, 1)

\* C16, reached: of three tracked files the second failed (missing, not
\* parsing, or no mapping); the buffer holds b: y of the first, {a: y, b: y},
\* and a: {b: y} of the third.
C16_Witness ==
    /\ hist.last.op = "_load_from_files"
    /\ files.ks = <<F1, F2, F3>>
    /\ disk[F1].content = T_a_b
    /\ Contribution(F2) = EmptyTree
    /\ disk[F3].content = T_ab
    /\ Buf(FILE_DATA) = Snap(EmptyMap, D2(K_a, D1(K_b, V_y), K_b, V_y))

\* The recursive rule on a tree: the empty path matches; a literal segment
\* matches a mapping that holds the key and whose value there matches the
\* rest; the wildcard matches a mapping that is empty, or with no segment
\* left, or whose every child matches the rest.
RECURSIVE Matches(_, _)
Matches(t, path) ==
    \/ path = <<>>
    \/ /\ path # <<>>
       /\ t.kind = "lit"
       /\ IF path[1] = Wildcard
          THEN \/ DOMAIN t.kids = {}
               \/ Tail(path) = <<>>
               \/ \A k \in DOMAIN t.kids : Matches(t.kids[k], Tail(path))
          ELSE /\ path[1] \in DOMAIN t.kids
               /\ Matches(t.kids[path[1]], Tail(path))

\* validate_config has just been called with a list that holds the pattern p.
Validated(p) ==
    /\ hist.last.op = "validate_config"
    /\ p \in Range(hist.last.key)

\* C17: key-presence matching.  validate_config accepts a pattern of its
\* list (does not name it in its error) exactly when the recursive rule
\* holds of data and the pattern's segments.  For the namespace
\* {mqtt: {servers: {s1: {address: x}, s2: {}}}} it rejects
\* mqtt.servers.%.address and accepts mqtt.servers.%, and for {a: {}} it
\* accepts a.%.
C17_KeyPresenceMatching ==
    /\ \A p \in Patterns :
          Validated(p) =>
              (p \notin Range(hist.last.msg) <=> Matches(Snap(heap, data), Split(p, ".")))
    /\ (/\ K_mqtt \in DOMAIN Snap(heap, data).kids
        /\ Validated(P_mqtt_servers_any_address)) => P_mqtt_servers_any_address \in Range(hist.last.msg)
    /\ (/\ K_mqtt \in DOMAIN Snap(heap, data).kids
        /\ Validated(P_mqtt_servers_any)) => P_mqtt_servers_any \notin Range(hist.last.msg)
    /\ (/\ Snap(heap, data) = Snap(EmptyMap, D1(K_a, EmptyLit))
        /\ Validated(P_a_any)) => P_a_any \notin Range(hist.last.msg)

\* C17, reached: on the mqtt namespace one call was given both patterns and
\* its error names mqtt.servers.%.address alone.
C17_Witness ==
    /\ K_mqtt \in DOMAIN Snap(heap, data).kids
    /\ hist.last.op = "validate_config"
    /\ hist.last.key = <<P_mqtt_servers_any, P_mqtt_servers_any_address>>
    /\ hist.last.msg = <<P_mqtt_servers_any_address>>

\* C18: the aggregated validation report.  validate_config raises nothing
\* when every pattern of its list matches; otherwise it raises one
\* ValueError that names the patterns of the list that do not match, all of
\* them and no other, in ascending order; either way data, the buffers and
\* the projection are as before the call.
C18_AggregatedReport ==
    [][hist'.last.op = "validate_config"
          => /\ hist'.last.exc = IF hist'.last.msg = <<>> THEN NoExc ELSE "ValueError"
             /\ Range(hist'.last.msg) =
                    {p \in Range(hist'.last.key) : ~Matches(Snap(heap, data), Split(p, "."))}
             /\ Len(hist'.last.msg) =
                    Cardinality({i \in 1..Len(hist'.last.key) :
                                    ~Matches(Snap(heap, data), Split(hist'.last.key[i], "."))})
             /\ \A i, j \in 1..Len(hist'.last.msg) :
                    i < j => ~StrLess(hist'.last.msg[j], hist'.last.msg[i])
             /\ <<heap, data, attrs, files, shutdown_flag>>'
                    = <<heap, data, attrs, files, shutdown_flag>>]_vars

\* C18, reached: on {a: x} the list [b, a.b] was validated; neither pattern
\* matches and the error names a.b before b.
C18_Witness ==
    /\ Snap(heap, data) = Snap(EmptyMap, D1(K_a, V_x))
    /\ hist.last.op = "validate_config"
    /\ hist.last.key = <<K_b, <<"a", ".", "b">> >>
    /\ hist.last.exc = "ValueError"
    /\ hist.last.msg = << <<"a", ".", "b">>, K_b>>

\* C19: the result of the structural merge.  After _deep_update(d, u), for
\* every key k of u: d[k] is u[k] when u[k] is no mapping (a list too,
\* whole); when u[k] is a mapping, d[k] is the merge of u[k] into what d
\* held at k if that was a mapping, and else a mapping equal to u[k]; every
\* key of d alone keeps its value.
C19_MergeResult ==
    [][fg'.step = 1
          => LET t == Snap(heap, data)
                 u == Snap(heap, fg.val)
                 r == Snap(heap', data)
             IN  /\ DOMAIN r.kids = (DOMAIN t.kids) \cup (DOMAIN u.kids)
                 /\ \A k \in DOMAIN u.kids :
                        r.kids[k] = IF u.kids[k].kind # "lit" THEN u.kids[k]
                                    ELSE IF k \in DOMAIN t.kids /\ t.kids[k].kind = "lit"
                                    THEN PureMerge(t.kids[k], u.kids[k])
                                    ELSE u.kids[k]
                 /\ \A k \in (DOMAIN t.kids) \ (DOMAIN u.kids) : r.kids[k] = t.kids[k]]_vars

\* C19, reached: {a: x, b: {c: y}} was merged into {a: {b: y, c: x}}; d
\* holds x at a, the old mapping discarded, and b: {c: y}.
C19_Witness ==
    /\ fg.op = "_deep_update" /\ fg.step = 1
    /\ Snap(heap, fg.val) = Snap(EmptyMap, D2(K_a, V_x, K_b, D1(K_c, V_y)))
    /\ Snap(heap, data) = Snap(heap, fg.val)

\* C20: the structural merge is idempotent.  _deep_update(d, {}) leaves d as
\* it was, and a second _deep_update(d, u) after the first leaves d as the
\* first left it, also where d held a non-mapping at a key at which u holds
\* a mapping; u itself is the same at every call.
C20_MergeIdempotent ==
    [][fg'.step # fg.step
          => /\ Snap(heap', fg.val) = Snap(heap, fg.val)
             /\ Snap(heap, fg.val) = Snap(EmptyMap, EmptyLit)
                    => Snap(heap', data) = Snap(heap, data)
             /\ fg'.step = 2 => Snap(heap', data) = Snap(heap, data)]_vars

\* C20, reached: u was merged twice into a d that held a non-mapping at a,
\* where u holds a mapping; d[a] is u[a] itself.
C20_Witness ==
    /\ fg.op = "_deep_update" /\ fg.step = 2
    /\ K_a \in DOMAIN heap[data.ref].m
    /\ K_a \in DOMAIN heap[fg.val.ref].m
    /\ IsDict(heap[fg.val.ref].m[K_a])
    /\ heap[data.ref].m[K_a] = heap[fg.val.ref].m[K_a]

\* The operations that resolve: they rebuild data and project it.
Resolving == {"update", "load_files", "load_args", "reload"}

\* C21: typed-mode records are immutable.  A record the handle holds as an
\* attribute differs from one state to the next only when an operation that
\* resolves has run in between; its holder cannot assign a field.
C21_RecordsImmutable ==
    [][\A k \in DOMAIN attrs :
          (attrs[k].kind = "rec" /\ k \in DOMAIN attrs' /\ attrs'[k] # attrs[k])
             => hist'.last.op \in Resolving]_vars

\* The record r has one field per key of the tree t, named by Sanitize, with
\* the key's value (a record of the same kind for a mapping); no two keys
\* share a field.
RECURSIVE FieldPerKey(_, _)
FieldPerKey(r, t) ==
    /\ r.kind = "rec"
    /\ DOMAIN r.kids = {Sanitize(k) : k \in DOMAIN t.kids}
    /\ \A k1, k2 \in DOMAIN t.kids : Sanitize(k1) = Sanitize(k2) => k1 = k2
    /\ \A k \in DOMAIN t.kids :
          IF t.kids[k].kind = "lit"
          THEN FieldPerKey(r.kids[Sanitize(k)], t.kids[k])
          ELSE r.kids[Sanitize(k)] = t.kids[k]

\* C29: the typed projection is total and one-to-one on keys.  In typed mode
\* every operation that resolves, and leaves data without a key that is a
\* method name, ends without an exception, and for every top-level key of
\* data that holds a mapping the handle has a record with exactly one field
\* per key of the mapping, at every depth, named with spaces, dots and
\* hyphens replaced by underscores and holding the key's value.
C29_TypedProjectionTotal ==
    [][(/\ use_dataclasses
        /\ hist'.last.op \in Resolving
        /\ Snap(heap', data').kind = "lit"
        /\ Colliding(heap', data') = {})
          => /\ hist'.last.exc = NoExc
             /\ \A k \in DOMAIN Snap(heap', data').kids :
                   Snap(heap', data').kids[k].kind = "lit"
                      => /\ k \in DOMAIN attrs'
                         /\ FieldPerKey(attrs'[k], Snap(heap', data').kids[k])]_vars

\* s equals the lower-case token tok when case is ignored.
EqualsIgnoringCase(s, tok) ==
    /\ Len(s) = Len(tok)
    /\ \A i \in 1..Len(s) :
          \/ s[i] = tok[i]
          \/ \E j \in 1..26 : LowerCase[j] = tok[i] /\ UpperCase[j] = s[i]

IsTrueToken(s) ==
    \E tok \in {<<"t", "r", "u", "e">>, <<"y", "e", "s">>, <<"y">>, <<"1">>} :
        EqualsIgnoringCase(s, tok)
IsFalseToken(s) ==
    \E tok \in {<<"f", "a", "l", "s", "e">>, <<"n", "o">>, <<"n">>, <<"0">>} :
        EqualsIgnoringCase(s, tok)

\* C23: scalar coercion is total and classifies in a fixed order.  Whatever
\* the argument, _convert_value returns (it raises nothing): the argument
\* itself when it is no string; True for a string that is true, yes, y or 1
\* with case ignored and False for false, no, n or 0; else a float for a
\* string with a point that parses as a number; else an int for a string
\* without a point that parses as an integer; else the string itself.
C23_ScalarCoercion ==
    hist.last.op = "_convert_value" =>
        LET v == fg.val
            r == hist.last.val
        IN  /\ hist.last.exc = NoExc
            /\ r # Raised
            /\ r = IF v.ty # "str" THEN v
                   ELSE IF IsTrueToken(v.s) THEN BoolV(TRUE)
                   ELSE IF IsFalseToken(v.s) THEN BoolV(FALSE)
                   ELSE IF Has(v.s, ".") /\ FloatParses(v.s) THEN FloatOf(v.s)
                   ELSE IF ~Has(v.s, ".") /\ IntParses(v.s) THEN IntOf(v.s)
                   ELSE v
            /\ r.ty \in {v.ty, "bool", "float", "int"}

\* C23, reached: the token 1 was given and the boolean True returned.
C23_Witness ==
    /\ hist.last.op = "_convert_value"
    /\ fg.val = StrV(<<"1">>)
    /\ hist.last.val = BoolV(TRUE)

\* s.split('__'): the pieces between the double underscores, left to right.
RECURSIVE SplitDunder(_)
SplitDunder(s) ==
    IF \A i \in 1..(Len(s) - 1) : ~(s[i] = "_" /\ s[i + 1] = "_") THEN <<s>>
    ELSE LET i == CHOOSE j \in 1..(Len(s) - 1) :
                     /\ s[j] = "_" /\ s[j + 1] = "_"
                     /\ \A l \in 1..(j - 1) : ~(s[l] = "_" /\ s[l + 1] = "_")
         IN  <<SubSeq(s, 1, i - 1)>> \o SplitDunder(Drop(s, i + 1))

\* The tree with one value at a path.
RECURSIVE PathTree(_, _)
PathTree(path, v) ==
    IF path = <<>> THEN v
    ELSE Lit(<<>>, [k \in {path[1]} |-> PathTree(Tail(path), v)])

\* The env buffer the specification asks for: for each variable with the
\* prefix, in the environment's order, the coerced value merged in at the
\* path of its name.
RECURSIVE EnvPure(_, _, _)
EnvPure(acc, environ, i) ==
    IF i > Len(environ) THEN acc
    ELSE IF ~StartsWith(environ[i][1], Prefix) THEN EnvPure(acc, environ, i + 1)
    ELSE EnvPure(PureMerge(acc, PathTree(SplitDunder(Lower(Drop(environ[i][1], Len(Prefix)))),
                                         ConvertValue(StrV(environ[i][2])))),
                 environ, i + 1)

\* C22: environment loading.  The construction returns, and then the env
\* buffer holds, for the variables whose name starts with the prefix and for
\* no others, the coerced value at the path made of the name without the
\* prefix, lower-cased and split on the double underscore (a later variable
\* replacing what an earlier one stored at or under its path); data is the
\* files buffer with the env buffer merged over it.
C22_EnvironmentLoading ==
    (hist.last.op = "__init__" /\ fg.op = "__init__") =>
        /\ hist.last.exc = NoExc
        /\ Buf(ENV_DATA) = EnvPure(EmptyTree, fg.key, 1)
        /\ Snap(heap, data) = PureMerge(Buf(FILE_DATA), Buf(ENV_DATA))

\* What one token sets, as a tree: nothing for a token without a dash.
TokenTree(arg) ==
    IF StartsWith(arg, <<"-", "-">>) /\ Has(arg, "=")
    THEN PathTree(Split(SubSeq(arg, 3, Find(arg, "=") - 1), "."),
                  ConvertValue(StrV(Drop(arg, Find(arg, "=")))))
    ELSE IF StartsWith(arg, <<"-", "-">>) THEN PathTree(Split(Drop(arg, 2), "."), BoolV(TRUE))
    ELSE IF StartsWith(arg, <<"-">>) THEN PathTree(Split(Drop(arg, 1), "."), BoolV(TRUE))
    ELSE EmptyTree

\* The tokens of a vector applied left to right.
RECURSIVE ArgsPure(_, _, _)
ArgsPure(acc, args, i) ==
    IF i > Len(args) THEN acc
    ELSE ArgsPure(PureMerge(acc, TokenTree(args[i])), args, i + 1)

\* C24: argument parsing.  Every load_args call returns, and then the args
\* buffer is what it was with the vector's tokens applied left to right:
\* --key=value sets the coerced value at the key's dotted path, a bare --key
\* and a -x set True, a later token for the same key wins, and what earlier
\* calls loaded at other keys stays.
C24_ArgumentParsing ==
    [][hist'.last.op = "load_args"
          => /\ hist'.last.exc = NoExc
             /\ BufIn(heap', ARGS_DATA) = ArgsPure(Buf(ARGS_DATA), hist'.last.key, 1)]_vars

\* The state of the handle: buffers and data, attributes, and the fields of
\* the engine.
HandleState ==
    <<heap, data, attrs, use_dataclasses, files, file_stamps, shutdown_flag, update_callbacks>>

\* C25: the singleton's lifecycle.  A construction call while an instance is
\* stored returns that instance and changes nothing of it, whatever its
\* arguments; a construction call after _reset() (or before any instance)
\* that returns, returns an instance that no earlier call returned, stores
\* it, and the instance has no runtime updates, no callbacks and no
\* attribute but the top-level keys of its own data.
C25_SingletonLifecycle ==
    [][hist'.last.op = "Config"
          => IF instances.cls # 0
             THEN /\ hist'.last.val = Instance(instances.cls)
                  /\ hist'.last.exc = NoExc
                  /\ instances' = instances
                  /\ HandleState' = HandleState
             ELSE hist'.last.exc = NoExc
                     => /\ \E n \in (1..MaxInstances + 1) \ (1..instances.made) :
                              /\ hist'.last.val = Instance(n)
                              /\ instances'.cls = n
                        /\ BufIn(heap', RUNTIME_DATA) = EmptyTree
                        /\ update_callbacks' = <<>>
                        /\ DOMAIN attrs' \subseteq DOMAIN Snap(heap', data').kids
                        /\ Snap(heap', data') = MergedIn(heap')]_vars

\* C25, reached: after a reset the second instance was made from the first
\* file and updated at c; a call that names the second file has returned
\* this instance, with no key of the second file and the attribute c.
C25_Witness ==
    /\ hist.last.op = "Config"
    /\ hist.last.key = <<F2>>
    /\ hist.last.val = Instance(2)
    /\ instances = [cls |-> 2, made |-> 2]
    /\ K_d \notin DOMAIN attrs
    /\ K_c \in DOMAIN attrs
    /\ BufIn(heap, RUNTIME_DATA) # EmptyTree

\* C26: no lost update under concurrency.  When a foreground update or
\* load_args has returned and a reload of the polling thread has completed,
\* however the clearing of data, the four merges and the projection of the
\* two interleaved, data is the ordered merge of the four buffers as they
\* are now.
C26_NoLostUpdate ==
    (/\ fg.pc = "idle"
     /\ hist.nops > 0
     /\ poll.pc = "callbacks")
        => Snap(heap, data) = MergedBuffers

\* C27: configuration content cannot overwrite the engine's own state.  An
\* operation that resolves, whatever keys its sources hold, leaves the
\* handle's data bound to the same mapping, its tracked files a list (only
\* load_files changes it, by appending), and its shutdown flag as it was.
C27_EngineStateProtected ==
    [][hist'.last.op \in Resolving
          => /\ data' = data
             /\ files'.kind = "list"
             /\ hist'.last.op # "load_files" => files' = files
             /\ shutdown_flag' = shutdown_flag]_vars

\* C28: no reload without a change.  While no tracked file has been written
\* since the handle was constructed (so none was modified since the engine
\* last read it), no poll cycle reloads: the files buffer is not rebuilt and
\* the polling thread does not enter the callback loop, also after
\* load_files has added a file and on the first poll after construction.
C28_NoReloadWithoutChange ==
    [][hist.writes = 0
          => /\ hist'.last.op # "reload"
             /\ poll'.pc = "callbacks" => poll.pc = "callbacks"]_vars

====
